---- MODULE Spec2Model ----
(***************************************************************************)
(* Coverage filtering and reporting of rodwer: the script classifier       *)
(* (isApplicationScript), the coverage metrics (calculateCoverageMetrics)  *)
(* and the report assembly loop (generateJSReportUnified).                 *)
(*                                                                         *)
(* Strings are sequences of one-character strings over ASCII, so len() is  *)
(* Len, and strings.ToLower / TrimSpace / Contains / HasPrefix / Split are *)
(* computed character by character.                                        *)
(***************************************************************************)
EXTENDS Integers, Sequences, FiniteSets, TLC

VARIABLES
    args,          \* the arguments of the pure call under check
    ret,           \* its return value, NoCall before the call
    filterOptions, \* CoverageReporter.filterOptions
    raw,           \* generateJSReportUnified: the scripts handed in
    provided,      \* what sourceProvider(i, raw[i]) returns, per index
    pc,            \* "idle" | "loop" | "done" | "panic"
    idx,           \* the loop index i of generateJSReportUnified (1-based)
    entries,       \* entries []FileEntry
    totalMetrics,  \* totalMetrics CoverageMetrics
    filterStats,   \* filterStats FilteringStats
    browser,       \* the Browser: closed, mu, and what Close did to rod, context and launcher
    page,          \* the Page: closed, mu, and what Close did to the rod page and context
    calls          \* per goroutine, the Browser or Page method it is executing

vars == <<args, ret, filterOptions, raw, provided, pc, idx, entries, totalMetrics, filterStats,
          browser, page, calls>>

NoCall == [called |-> FALSE]

----------------------------------------------------------------------------
(* package strings *)

UpperToLower ==
    LET
        UpperCase == <<"A","B","C","D","E","F","G","H","I","J","K","L","M","N","O","P","Q","R","S","T","U","V","W","X","Y","Z">>
    IN
    [c \in {UpperCase[k] : k \in 1..Len(UpperCase)} |->
        <<"a","b","c","d","e","f","g","h","i","j","k","l","m","n","o","p","q","r","s","t","u","v","w","x","y","z">>[CHOOSE k \in 1..Len(UpperCase) : UpperCase[k] = c]]

ToLowerChar(c) == IF c \in DOMAIN UpperToLower THEN UpperToLower[c] ELSE c

ToLower(s) == [k \in 1..Len(s) |-> ToLowerChar(s[k])]

IsSpace(c) == c \in {" ", "\t", "\n", "\r", "\f"}

MinOf(S) == CHOOSE m \in S : \A n \in S : m <= n

TrimSpace(s) ==
    LET
        MaxOf(S) == CHOOSE m \in S : \A n \in S : n <= m
    IN
    LET keep == {k \in 1..Len(s) : ~IsSpace(s[k])}
    IN  IF keep = {} THEN << >> ELSE SubSeq(s, MinOf(keep), MaxOf(keep))

HasPrefix(s, p) == Len(p) <= Len(s) /\ SubSeq(s, 1, Len(p)) = p

Contains(s, p) == \E k \in 0..(Len(s) - Len(p)) : SubSeq(s, k + 1, k + Len(p)) = p

RECURSIVE Split(_)
Split(s) ==
    LET nl == {k \in 1..Len(s) : s[k] = "\n"}
    IN  IF nl = {} THEN <<s>>
        ELSE <<SubSeq(s, 1, MinOf(nl) - 1)>> \o Split(SubSeq(s, MinOf(nl) + 1, Len(s)))

----------------------------------------------------------------------------
(* getFilterOptions *)

BaseMinScriptSize == 30
BaseMaxStatementsPerLine == 50
DevelopmentMinScriptSize == 10
DevelopmentMaxStatementsPerLine == 100
ProductionMinScriptSize == 50
ProductionMaxStatementsPerLine == 5
ApplicationMinScriptSize == 15
ApplicationMaxStatementsPerLine == 5

\* a base option set that keeps CDN libraries
BaseOptionsKeepingCDN ==
    [ ExcludeEmptyURLs                |-> TRUE,
      ExcludeDevTools                 |-> TRUE,
      ExcludeBrowserExt               |-> TRUE,
      ExcludeFrameworkTools           |-> TRUE,
      ExcludeCDNLibraries             |-> FALSE,
      ExcludeMinifiedCode             |-> TRUE,
      ExcludeTestFrameworks           |-> TRUE,
      ExcludeHighDensityInlineScripts |-> TRUE,
      ExcludeInlineSystemScripts      |-> TRUE,
      MinScriptSize                   |-> BaseMinScriptSize,
      MaxStatementsPerLine            |-> BaseMaxStatementsPerLine,
      CustomExcludePatterns           |-> << >>,
      CustomIncludePatterns           |-> << >> ]

BaseOptions ==
    [ ExcludeEmptyURLs                |-> TRUE,
      ExcludeDevTools                 |-> TRUE,
      ExcludeBrowserExt               |-> TRUE,
      ExcludeFrameworkTools           |-> TRUE,
      ExcludeCDNLibraries             |-> TRUE,
      ExcludeMinifiedCode             |-> TRUE,
      ExcludeTestFrameworks           |-> TRUE,
      ExcludeHighDensityInlineScripts |-> TRUE,
      ExcludeInlineSystemScripts      |-> TRUE,
      MinScriptSize                   |-> BaseMinScriptSize,
      MaxStatementsPerLine            |-> BaseMaxStatementsPerLine,
      CustomExcludePatterns           |-> << >>,
      CustomIncludePatterns           |-> << >> ]

\* a name the switch does not know treated as the reporter's own default, "application"
getFilterOptionsFallbackApplication(profile) ==
    CASE profile = "development" ->
            [BaseOptions EXCEPT !.ExcludeFrameworkTools = FALSE,
                                !.ExcludeMinifiedCode = FALSE,
                                !.ExcludeTestFrameworks = FALSE,
                                !.ExcludeHighDensityInlineScripts = FALSE,
                                !.MinScriptSize = DevelopmentMinScriptSize,
                                !.MaxStatementsPerLine = DevelopmentMaxStatementsPerLine]
      [] profile = "production" ->
            [BaseOptions EXCEPT !.MinScriptSize = ProductionMinScriptSize,
                                !.MaxStatementsPerLine = ProductionMaxStatementsPerLine]
      [] profile = "default" -> BaseOptions
      [] OTHER ->
            [BaseOptions EXCEPT !.MinScriptSize = ApplicationMinScriptSize,
                                !.MaxStatementsPerLine = ApplicationMaxStatementsPerLine]

getFilterOptions(profile) ==
    CASE profile = "development" ->
            [BaseOptions EXCEPT !.ExcludeFrameworkTools = FALSE,
                                !.ExcludeMinifiedCode = FALSE,
                                !.ExcludeTestFrameworks = FALSE,
                                !.ExcludeHighDensityInlineScripts = FALSE,
                                !.MinScriptSize = DevelopmentMinScriptSize,
                                !.MaxStatementsPerLine = DevelopmentMaxStatementsPerLine]
      [] profile = "production" ->
            [BaseOptions EXCEPT !.MinScriptSize = ProductionMinScriptSize,
                                !.MaxStatementsPerLine = ProductionMaxStatementsPerLine]
      [] profile = "application" ->
            [BaseOptions EXCEPT !.MinScriptSize = ApplicationMinScriptSize,
                                !.MaxStatementsPerLine = ApplicationMaxStatementsPerLine]
      [] OTHER -> BaseOptions

----------------------------------------------------------------------------
(* isApplicationScript, coverage_templates.go *)

InlineScriptPrefix == <<"i","n","l","i","n","e","-","s","c","r","i","p","t","-">>

devToolsPatterns ==
    << <<"f","u","n","c","t","i","o","n","s",".","s","e","l","e","c","t","a","b","l","e">>,
    <<"f","u","n","c","t","i","o","n","s",".","e","l","e","m","e","n","t">>,
    <<"f",".","t","o","S","t","r","i","n","g">>,
    <<"_","_","c","o","v","e","r","a","g","e","_","_">>,
    <<"w","e","b","d","r","i","v","e","r">>,
    <<"p","u","p","p","e","t","e","e","r">>,
    <<"p","l","a","y","w","r","i","g","h","t">>,
    <<"r","o","d">> >>

\* sourceLower := strings.ToLower(source), then one Contains per pattern
MatchesAny(s, patterns) ==
    LET lower == ToLower(s)
    IN  \E k \in 1..Len(patterns) : Contains(lower, ToLower(patterns[k]))

CustomIncludeMatchesCaseSensitive(url, source, options) ==
    \E k \in 1..Len(options.CustomIncludePatterns) :
        \/ Contains(url, options.CustomIncludePatterns[k])
        \/ Contains(source, options.CustomIncludePatterns[k])

CustomIncludeMatches(url, source, options) ==
    \E k \in 1..Len(options.CustomIncludePatterns) :
        \/ Contains(ToLower(url), ToLower(options.CustomIncludePatterns[k]))
        \/ Contains(ToLower(source), ToLower(options.CustomIncludePatterns[k]))

\* the URL compared with the prefix as a whole
inlineScriptBlockedExact(url) == url = InlineScriptPrefix

inlineScriptBlocked(url) == HasPrefix(url, InlineScriptPrefix)

emptyURLInverted(url, options) == options.ExcludeEmptyURLs /\ url # << >>

emptyURL(url, options) == options.ExcludeEmptyURLs /\ url = << >>

browserExtension(url, options) ==
    /\ options.ExcludeBrowserExt
    /\ \/ Contains(url, <<"c","h","r","o","m","e","-","e","x","t","e","n","s","i","o","n",":","/","/">>)
       \/ Contains(url, <<"m","o","z","-","e","x","t","e","n","s","i","o","n",":","/","/">>)
       \/ Contains(url, <<"s","a","f","a","r","i","-","e","x","t","e","n","s","i","o","n",":","/","/">>)

devToolsFramework(source, options) ==
    options.ExcludeDevTools /\ MatchesAny(source, devToolsPatterns)

\* the boundary taken as <=
tooSmallInclusive(source, options) == Len(TrimSpace(source)) <= options.MinScriptSize

tooSmall(source, options) == Len(TrimSpace(source)) < options.MinScriptSize

Result(isApp, reason) == [isApp |-> isApp, reason |-> reason]

isApplicationScript(url, source, options) ==
    IF CustomIncludeMatches(url, source, options)
        THEN Result(TRUE, "custom_include")
    ELSE IF inlineScriptBlocked(url)
        THEN Result(FALSE, "inline_script_blocked")
    ELSE IF emptyURL(url, options)
        THEN Result(FALSE, "empty_url")
    ELSE IF browserExtension(url, options)
        THEN Result(FALSE, "browser_extension")
    ELSE IF devToolsFramework(source, options)
        THEN Result(FALSE, "devtools_framework")
    ELSE IF tooSmall(source, options)
        THEN Result(FALSE, "too_small")
    ELSE Result(TRUE, "application_script")

----------------------------------------------------------------------------
(* The further rules of isApplicationScript as browser_test.go has them *)

browserInternalPatterns ==
    << <<"c","o","n","s","o","l","e",".","c","l","e","a","r","(",")">>,
    <<"c","o","n","s","o","l","e",".","t","i","m","e","(",")">>,
    <<"c","o","n","s","o","l","e",".","g","r","o","u","p","(",")">>,
    <<"c","o","n","s","o","l","e",".","c","l","e","a","r">>,
    <<"c","o","n","s","o","l","e",".","t","i","m","e">>,
    <<"c","o","n","s","o","l","e",".","g","r","o","u","p">> >>

frameworkToolPatterns ==
    << <<"_","_","R","E","A","C","T","_","D","E","V","T","O","O","L","S","_","G","L","O","B","A","L","_","H","O","O","K","_","_">>,
    <<"r","e","a","c","t","-","d","e","v","t","o","o","l","s">>,
    <<"R","e","a","c","t","D","e","v","T","o","o","l","s">>,
    <<"_","_","R","E","A","C","T","_","H","O","T","_","L","O","A","D","E","R","_","_">>,
    <<"r","e","a","c","t","-","h","o","t","-","l","o","a","d","e","r">>,
    <<"w","e","b","p","a","c","k","-","h","o","t","-","m","i","d","d","l","e","w","a","r","e">>,
    <<"_","_","V","U","E","_","D","E","V","T","O","O","L","S","_","G","L","O","B","A","L","_","H","O","O","K","_","_">>,
    <<"v","u","e","-","d","e","v","t","o","o","l","s">>,
    <<"V","u","e","D","e","v","T","o","o","l","s">>,
    <<"v","u","e","-","h","o","t","-","r","e","l","o","a","d","-","a","p","i">>,
    <<"_","_","V","U","E","_","H","M","R","_","R","U","N","T","I","M","E","_","_">>,
    <<"n","g",".","p","r","o","b","e">>,
    <<"n","g",".","c","o","r","e","T","o","k","e","n","s">>,
    <<"g","e","t","A","l","l","A","n","g","u","l","a","r","R","o","o","t","E","l","e","m","e","n","t","s">>,
    <<"@","a","n","g","u","l","a","r","/","c","o","r","e","/","b","u","n","d","l","e","s">>,
    <<"z","o","n","e",".","j","s","/","b","u","n","d","l","e","s">>,
    <<"w","e","b","p","a","c","k",":","/","/">>,
    <<"w","e","b","p","a","c","k","B","o","o","t","s","t","r","a","p">>,
    <<"_","_","w","e","b","p","a","c","k","_","r","e","q","u","i","r","e","_","_">>,
    <<"(","f","u","n","c","t","i","o","n","(","m","o","d","u","l","e",","," ","e","x","p","o","r","t","s",","," ","_","_","w","e","b","p","a","c","k","_","r","e","q","u","i","r","e","_","_",")">>,
    <<"p","a","r","c","e","l","R","e","q","u","i","r","e">>,
    <<"r","o","l","l","u","p","P","l","u","g","i","n","B","a","b","e","l","H","e","l","p","e","r","s">>,
    <<"/","/","#"," ","s","o","u","r","c","e","M","a","p","p","i","n","g","U","R","L","=">>,
    <<"/","/","#"," ","s","o","u","r","c","e","U","R","L","=">> >>

cdnPatterns ==
    << <<"c","d","n",".","j","s","d","e","l","i","v","r",".","n","e","t">>,
    <<"u","n","p","k","g",".","c","o","m">>,
    <<"c","d","n","j","s",".","c","l","o","u","d","f","l","a","r","e",".","c","o","m">>,
    <<"a","j","a","x",".","g","o","o","g","l","e","a","p","i","s",".","c","o","m">>,
    <<"c","o","d","e",".","j","q","u","e","r","y",".","c","o","m">>,
    <<"s","t","a","c","k","p","a","t","h",".","b","o","o","t","s","t","r","a","p","c","d","n",".","c","o","m">>,
    <<"m","a","x","c","d","n",".","b","o","o","t","s","t","r","a","p","c","d","n",".","c","o","m">>,
    <<"u","s","e",".","f","o","n","t","a","w","e","s","o","m","e",".","c","o","m">>,
    <<"f","o","n","t","s",".","g","o","o","g","l","e","a","p","i","s",".","c","o","m">>,
    <<"p","o","l","y","f","i","l","l",".","i","o">>,
    <<"c","d","n",".","p","o","l","y","f","i","l","l",".","i","o">>,
    <<"c","l","o","u","d","f","l","a","r","e",".","c","o","m","/","a","j","a","x","/","l","i","b","s">> >>

minifiedURLMarkers ==
    << <<".","m","i","n",".">>,
    <<"-","m","i","n",".">>,
    <<"_","m","i","n",".">>,
    <<"/","m","i","n","/">> >>

testFrameworkPatterns ==
    << <<"j","e","s","t","-","r","u","n","t","i","m","e">>,
    <<"j","e","s","t",".","f","n","(",")">>,
    <<"e","x","p","e","c","t",".","e","x","t","e","n","d">>,
    <<"_","_","j","e","s","t">>,
    <<"d","e","s","c","r","i","b","e","(">>,
    <<"t","e","s","t","(">>,
    <<"i","t","(">>,
    <<"e","x","p","e","c","t","(">>,
    <<"b","e","f","o","r","e","E","a","c","h","(">>,
    <<"a","f","t","e","r","E","a","c","h","(">>,
    <<"j","a","s","m","i","n","e",".","c","r","e","a","t","e","S","p","y">>,
    <<"j","a","s","m","i","n","e",".","c","l","o","c","k">>,
    <<"j","e","s","t","/","b","u","i","l","d","/">>,
    <<"m","o","c","h","a",".","s","e","t","u","p">>,
    <<"c","h","a","i",".","e","x","p","e","c","t">>,
    <<"c","h","a","i",".","a","s","s","e","r","t">>,
    <<"s","h","o","u","l","d",".","j","s">>,
    <<"j","a","s","m","i","n","e",".","g","e","t","E","n","v","(",")">>,
    <<"j","a","s","m","i","n","e",".","D","E","F","A","U","L","T","_","T","I","M","E","O","U","T","_","I","N","T","E","R","V","A","L">>,
    <<"c","y","p","r","e","s","s","/">>,
    <<"c","y",".","v","i","s","i","t","(">>,
    <<"c","y",".","g","e","t","(">>,
    <<"c","y",".","c","l","i","c","k","(">>,
    <<"@","t","e","s","t","i","n","g","-","l","i","b","r","a","r","y","/">>,
    <<"r","e","n","d","e","r","(">>,
    <<"s","c","r","e","e","n",".","g","e","t","B","y">>,
    <<"Q","U","n","i","t",".","t","e","s","t">>,
    <<"Q","U","n","i","t",".","m","o","d","u","l","e">>,
    <<"k","a","r","m","a",".","c","o","n","f">>,
    <<"_","_","k","a","r","m","a","_","_">> >>

isBrowserInternal(source) ==
    \E k \in 1..Len(browserInternalPatterns) :
        \/ TrimSpace(source) = browserInternalPatterns[k]
        \/ TrimSpace(source) = browserInternalPatterns[k] \o <<";">>

isFrameworkTool(url, source) ==
    MatchesAny(source, frameworkToolPatterns) \/ MatchesAny(url, frameworkToolPatterns)

\* the CDN patterns are compared as written (all lower case) with the lowered URL
isCDNLibrary(url) == \E k \in 1..Len(cdnPatterns) : Contains(ToLower(url), cdnPatterns[k])

hasMinifiedURL(url) == \E k \in 1..Len(minifiedURLMarkers) : Contains(ToLower(url), minifiedURLMarkers[k])

isGeneratedCode(source) ==
    LET
        generatedCodeMarkers ==
            << <<"t","h","i","s"," ","f","i","l","e"," ","w","a","s"," ","a","u","t","o","g","e","n","e","r","a","t","e","d">>,
            <<"d","o"," ","n","o","t"," ","e","d","i","t">>,
            <<"a","u","t","o","-","g","e","n","e","r","a","t","e","d">>,
            <<"g","e","n","e","r","a","t","e","d"," ","b","y"," ","w","e","b","p","a","c","k">>,
            <<"g","e","n","e","r","a","t","e","d"," ","b","y"," ","r","o","l","l","u","p">>,
            <<"g","e","n","e","r","a","t","e","d"," ","b","y"," ","p","a","r","c","e","l">>,
            <<"c","o","m","p","i","l","e","d"," ","b","y"," ","b","a","b","e","l">>,
            <<"t","h","i","s"," ","i","s"," ","a"," ","g","e","n","e","r","a","t","e","d"," ","f","i","l","e">>,
            <<"/","*"," ","e","s","l","i","n","t","-","d","i","s","a","b","l","e"," ","*","/">>,
            <<"/","*"," ","t","s","l","i","n","t",":","d","i","s","a","b","l","e"," ","*","/">> >>
    IN
        MatchesAny(source, generatedCodeMarkers)

MinifiedLineLength == 200
MinifiedLinesChecked == 5

looksMinified(source) ==
    LET lines == Split(source)
    IN  \E k \in 1..Len(lines) :
            /\ k <= MinifiedLinesChecked
            /\ Len(TrimSpace(lines[k])) > MinifiedLineLength
            /\ ~Contains(TrimSpace(lines[k]), <<" ">>)
            /\ ~HasPrefix(TrimSpace(lines[k]), <<"/","/">>)

isTestFramework(url, source) ==
    MatchesAny(source, testFrameworkPatterns) \/ MatchesAny(url, testFrameworkPatterns)

CustomExcludeMatches(url, source, options) ==
    \E k \in 1..Len(options.CustomExcludePatterns) :
        \/ Contains(ToLower(url), ToLower(options.CustomExcludePatterns[k]))
        \/ Contains(ToLower(source), ToLower(options.CustomExcludePatterns[k]))

----------------------------------------------------------------------------
(* calculatePct, calculateCoverageMetrics *)

RECURSIVE Gcd(_, _)
Gcd(a, b) == IF b = 0 THEN a ELSE Gcd(b, a % b)

\* A float64 percentage, kept as the exact fraction num/den in lowest terms.
Rat(n, d) == [num |-> n \div Gcd(n, d), den |-> d \div Gcd(n, d)]

PercentScale == 100

\* without the guard 0/0 is NaN, written 0/0 here
calculatePctUnguarded(covered, total) ==
    IF total = 0 THEN [num |-> 0, den |-> 0] ELSE Rat(covered * PercentScale, total)

calculatePct(covered, total) ==
    IF total = 0 THEN ([num |-> 0, den |-> 1]) ELSE Rat(covered * PercentScale, total)

ZeroMetrics ==
    [Statements |-> ([Total |-> 0, Covered |-> 0, Skipped |-> 0, Pct |-> ([num |-> 0, den |-> 1])]), Branches |-> ([Total |-> 0, Covered |-> 0, Skipped |-> 0, Pct |-> ([num |-> 0, den |-> 1])]), Functions |-> ([Total |-> 0, Covered |-> 0, Skipped |-> 0, Pct |-> ([num |-> 0, den |-> 1])]), Lines |-> ([Total |-> 0, Covered |-> 0, Skipped |-> 0, Pct |-> ([num |-> 0, den |-> 1])])]

\* A runtime panic (index out of range) instead of a value.
Panic == [panic |-> TRUE]

Bits(coverage) == [panic |-> FALSE, bits |-> coverage]

Ok(v) == [panic |-> FALSE, value |-> v]

\* for i := r.StartOffset; i < r.EndOffset && i < sourceLen; i++ { coverage[i] = true }
\* coverage is indexed 0..sourceLen-1; an index outside it is a runtime panic.
RECURSIVE MarkFrom(_, _, _, _)
MarkFrom(coverage, i, r, sourceLen) ==
    IF i < r.EndOffset /\ i < sourceLen
    THEN IF i < 0 \/ i >= sourceLen
         THEN Panic
         ELSE MarkFrom([coverage EXCEPT ![i] = TRUE], i + 1, r, sourceLen)
    ELSE Bits(coverage)

RECURSIVE MarkRanges(_, _, _, _)
MarkRanges(coverage, ranges, k, sourceLen) ==
    IF k > Len(ranges) THEN Bits(coverage)
    ELSE IF ranges[k].Count > 0
         THEN LET marked == MarkFrom(coverage, ranges[k].StartOffset, ranges[k], sourceLen)
              IN  IF marked.panic THEN Panic
                  ELSE MarkRanges(marked.bits, ranges, k + 1, sourceLen)
         ELSE MarkRanges(coverage, ranges, k + 1, sourceLen)

\* coverage := make([]bool, sourceLen), then the marking loop
buildCoverage(sourceLen, ranges) ==
    MarkRanges([i \in 0..(sourceLen - 1) |-> FALSE], ranges, 1, sourceLen)

RECURSIVE SumLens(_, _)
SumLens(lines, n) == IF n = 0 THEN 0 ELSE SumLens(lines, n - 1) + Len(lines[n]) + 1

\* a range counted only when it holds at least one byte
functionHasCoverageNonEmpty(fn) ==
    \E k \in DOMAIN fn.Ranges : fn.Ranges[k].Count > 0 /\ fn.Ranges[k].StartOffset < fn.Ranges[k].EndOffset

functionHasCoverage(fn) == \E k \in 1..Len(fn.Ranges) : fn.Ranges[k].Count > 0

calculateCoverageMetrics(source, ranges, functions) ==
    LET
        \* lineStart counts the untrimmed lines before line i; lineEnd adds the length of
        \* the TRIMMED line (the loop variable was reassigned to strings.TrimSpace(line)).
        \* for k := lineStart; k < lineEnd && k < len(coverage); k++ { if coverage[k] ... }
        lineCovered(lines, i, coverage) ==
            LET lineStart == SumLens(lines, i - 1)
                lineEnd   == lineStart + Len(TrimSpace(lines[i]))
            IN  \E k \in lineStart..(lineEnd - 1) : k \in DOMAIN coverage /\ coverage[k]
    IN
    LET
        IsExecutableLine(line) ==
            LET trimmed == TrimSpace(line)
            IN  trimmed # << >> /\ ~HasPrefix(trimmed, <<"/","/">>)
    IN
    LET sourceLen == Len(source)
        lines     == Split(source)
        built     == buildCoverage(sourceLen, ranges)
    IN  IF built.panic THEN Panic
        ELSE
        LET coverage         == built.bits
            coveredChars     == Cardinality({i \in DOMAIN coverage : coverage[i]})
            executable       == {i \in 1..Len(lines) : IsExecutableLine(lines[i])}
            executableLines  == Cardinality(executable)
            linesCovered     == Cardinality({i \in executable : lineCovered(lines, i, coverage)})
            functionCount    == Len(functions)
            functionsCovered == Cardinality({k \in 1..Len(functions) : functionHasCoverage(functions[k])})
        IN  Ok([
              Statements |-> [Total |-> sourceLen, Covered |-> coveredChars, Skipped |-> 0,
                              Pct |-> calculatePct(coveredChars, sourceLen)],
              Branches   |-> ([Total |-> 0, Covered |-> 0, Skipped |-> 0, Pct |-> ([num |-> 0, den |-> 1])]),
              Functions  |-> [Total |-> functionCount, Covered |-> functionsCovered, Skipped |-> 0,
                              Pct |-> calculatePct(functionsCovered, functionCount)],
              Lines      |-> [Total |-> executableLines, Covered |-> linesCovered, Skipped |-> 0,
                              Pct |-> calculatePct(linesCovered, executableLines)] ])

----------------------------------------------------------------------------
(* FilteringStats.FilterReasons: a map[string]int; a missing key reads as 0 *)

Count(m, k) == IF k \in DOMAIN m THEN m[k] ELSE 0

Incr(m, k) == IF k \in DOMAIN m THEN [m EXCEPT ![k] = @ + 1] ELSE m @@ (k :> 1)

RECURSIVE SumCounts(_, _)
SumCounts(m, keys) ==
    IF keys = {} THEN 0
    ELSE LET k == CHOOSE x \in keys : TRUE IN m[k] + SumCounts(m, keys \ {k})

----------------------------------------------------------------------------
(* string order: Go compares strings byte by byte *)

RECURSIVE StrLess(_, _)
StrLess(a, b) ==
    LET
        \* the printable characters 32..95 and 97..126, in byte order
        AsciiLow ==
            <<" ","!","\"","#","$","%","&","'","(",")","*","+",",","-",".","/","0","1","2","3","4","5","6","7","8","9",":",";","<","=",">","?","@","A","B","C","D","E","F","G","H","I","J","K","L","M","N","O","P","Q","R","S","T","U","V","W","X","Y","Z","[","\\","]","^","_">>
    IN
    LET
        Ord(c) ==
            LET
                AsciiHigh ==
                    <<"a","b","c","d","e","f","g","h","i","j","k","l","m","n","o","p","q","r","s","t","u","v","w","x","y","z","{","|","}","~">>
            IN
            CASE c = "\t" -> 9
              [] c = "\n" -> 10
              [] c = "\f" -> 12
              [] c = "\r" -> 13
              [] \E k \in 1..Len(AsciiLow) : AsciiLow[k] = c ->
                    31 + (CHOOSE k \in 1..Len(AsciiLow) : AsciiLow[k] = c)
              [] OTHER -> 96 + (CHOOSE k \in 1..Len(AsciiHigh) : AsciiHigh[k] = c)
    IN
    IF b = << >> THEN FALSE
    ELSE IF a = << >> THEN TRUE
    ELSE IF a[1] = b[1] THEN StrLess(Tail(a), Tail(b))
    ELSE Ord(a[1]) < Ord(b[1])

----------------------------------------------------------------------------
(* Inputs of the pure calls *)

MaxRanges == 2
MaxScripts == 2

SeqsUpTo(S, n) == UNION {[1..m -> S] : m \in 0..n}

Range(start, end, count) == [StartOffset |-> start, EndOffset |-> end, Count |-> count]

ClassifyURLs ==
    { << >>,
      <<"a","p","p",".","j","s">>,
      <<"i","n","l","i","n","e","-","s","c","r","i","p","t","-","1">>,
      <<"h","t","t","p","s",":","/","/","c","d","n",".","j","s","d","e","l","i","v","r",".","n","e","t","/","x",".","j","s">>,
      <<"c","h","r","o","m","e","-","e","x","t","e","n","s","i","o","n",":","/","/","a",".","j","s">>,
      <<"A","p","p","-","I","n","l","i","n","e",".","m","i","n",".","J","S">> }

ClassifySources ==
    { <<"c","o","n","s","o","l","e",".","c","l","e","a","r","(",")">>,
      <<"l","e","t"," ","a"," ","="," ","1",";"," ","b","(","a",")",";">>,
      <<"x","=","1">>,
      <<" "," ","v","a","r"," ","p","r","o","d","u","c","t",";"," "," ">>,
      <<" ","l","e","t"," ","a"," ","="," ","1",";"," ","b","(","a",")",";","\n">>,
      <<"c","o","n","s","o","l","e",".","c","l","e","a","r","(",")",";">> }

----------------------------------------------------------------------------
(* countJavaScriptStatements, removeJavaScriptComments, isRepetitiveContent *)

\* strings.Index(s[from-1:], sub) as a 1-based position in s, 0 when absent
Index(s, sub, from) ==
    LET hits == {k \in from..(Len(s) - Len(sub) + 1) : SubSeq(s, k, k + Len(sub) - 1) = sub}
    IN  IF hits = {} THEN 0 ELSE MinOf(hits)

\* strings.Count(s, sub): the occurrences that do not overlap, from the left
RECURSIVE CountFrom(_, _, _)
CountFrom(s, sub, from) ==
    LET at == Index(s, sub, from)
    IN  IF at = 0 THEN 0 ELSE 1 + CountFrom(s, sub, at + Len(sub))

StrCount(s, sub) == CountFrom(s, sub, 1)

RECURSIVE Join(_, _)
Join(lines, k) ==
    IF k > Len(lines) THEN << >>
    ELSE IF k = Len(lines) THEN lines[k]
    ELSE lines[k] \o <<"\n">> \o Join(lines, k + 1)

\* the turns for line[lo..hi] in order, none after the break; the range is
\* halved so that a long line nests no deeper than a short one
RECURSIVE scanChars(_, _, _, _)
scanChars(line, lo, hi, s) ==
    LET
        \* one turn of `for i, char := range line`: the scanner's inString and
        \* escaped flags, and commentStart (a 1-based position, 0 while none is found)
        scanChar(i) ==
            IF s.escaped THEN [s EXCEPT !.escaped = FALSE]
            ELSE IF line[i] = "\\" /\ s.inString THEN [s EXCEPT !.escaped = TRUE]
            ELSE IF line[i] \in {"\"", "'"} THEN [s EXCEPT !.inString = ~s.inString]
            ELSE IF ~s.inString /\ i < Len(line) /\ line[i] = "/" /\ line[i + 1] = "/"
                THEN [s EXCEPT !.commentStart = i]
            ELSE s
    IN
    IF s.commentStart # 0 \/ lo > hi THEN s
    ELSE IF lo = hi THEN scanChar(lo)
    ELSE LET mid  == (lo + hi) \div 2
             left == scanChars(line, lo, mid, s)
         IN  scanChars(line, mid + 1, hi, left)

commentStart(line) ==
    scanChars(line, 1, Len(line), [inString |-> FALSE, escaped |-> FALSE, commentStart |-> 0]).commentStart

\* the loop that cuts /* ... */ out, an unterminated comment up to the end
RECURSIVE stripBlockComments(_)
stripBlockComments(result) ==
    LET start == Index(result, <<"/", "*">>, 1)
    IN  IF start = 0 THEN result
        ELSE LET end == Index(result, <<"*", "/">>, start + 2)
             IN  IF end = 0 THEN SubSeq(result, 1, start - 1)
                 ELSE stripBlockComments(SubSeq(result, 1, start - 1)
                                         \o SubSeq(result, end + 2, Len(result)))

removeJavaScriptComments(source) ==
    LET
        stripLineComment(line) ==
            LET at == commentStart(line)
            IN  IF at = 0 THEN line ELSE SubSeq(line, 1, at - 1)
    IN
    LET lines == Split(source)
    IN  stripBlockComments(Join([k \in 1..Len(lines) |-> stripLineComment(lines[k])], 1))

RECURSIVE SumOver(_, _, _)
SumOver(s, patterns, k) ==
    IF k > Len(patterns) THEN 0 ELSE StrCount(s, patterns[k]) + SumOver(s, patterns, k + 1)

countJavaScriptStatements(source) ==
    LET
        statementPatterns ==
            << <<"f","u","n","c","t","i","o","n"," ">>, <<"v","a","r"," ">>, <<"l","e","t"," ">>, <<"c","o","n","s","t"," ">>, <<"i","f"," ">>, <<"f","o","r"," ">>, <<"w","h","i","l","e"," ">>,
               <<"r","e","t","u","r","n"," ">>, <<"t","h","r","o","w"," ">>, <<"t","r","y"," ">>, <<"c","a","t","c","h"," ">>, <<"s","w","i","t","c","h"," ">>, <<"c","a","s","e"," ">>,
               <<"b","r","e","a","k">>, <<"c","o","n","t","i","n","u","e">>, <<"c","l","a","s","s"," ">>, <<"i","m","p","o","r","t"," ">>, <<"e","x","p","o","r","t"," ">> >>
    IN
    IF source = << >> THEN 0
    ELSE LET cleaned        == removeJavaScriptComments(source)
             semicolonCount == StrCount(cleaned, <<";">>)
             patternCount   == SumOver(ToLower(cleaned), statementPatterns, 1)
         IN  IF semicolonCount > patternCount THEN semicolonCount ELSE patternCount

RepetitiveMinLength == 100
RepetitiveMinLines == 3
RepetitiveRatioTenths == 6
NarrowSymbolLimit == 10

narrowSymbols == << <<".",".",".">>, <<"=","=","=">>, <<"!","!","!">>, <<"?","?","?">>, <<"0","0","0">>, <<"1","1","1">> >>

\* line i and line i+1 are the same once trimmed, and not blank
identicalToNext(lines, i) ==
    TrimSpace(lines[i]) # << >> /\ TrimSpace(lines[i]) = TrimSpace(lines[i + 1])

isRepetitiveContent(source) ==
    LET
        \* float64(identicalLines) / float64(len(lines)) > 0.6
        repetitiveRatio(identicalLines, lines) ==
            identicalLines * 10 > RepetitiveRatioTenths * Len(lines)
    IN
    IF Len(source) < RepetitiveMinLength THEN FALSE
    ELSE LET lines == Split(source)
         IN  IF Len(lines) < RepetitiveMinLines THEN FALSE
             ELSE LET identicalLines ==
                          Cardinality({i \in 1..(Len(lines) - 1) : identicalToNext(lines, i)})
                  IN  \/ repetitiveRatio(identicalLines, lines)
                      \/ \E k \in 1..Len(narrowSymbols) :
                            StrCount(source, narrowSymbols[k]) > NarrowSymbolLimit

----------------------------------------------------------------------------
(* isApplicationScript as browser_test.go has it, with all its rules *)

\* strings.HasPrefix(URL, "inline-script-") || URL == "" ||
\* strings.Contains(strings.ToLower(URL), "inline")
inlineForDensity(url) ==
    \/ HasPrefix(url, InlineScriptPrefix)
    \/ url = << >>
    \/ Contains(ToLower(url), <<"i","n","l","i","n","e">>)

\* float64(statementCount) / float64(nonEmptyLines) > float64(options.MaxStatementsPerLine)
highDensityInline(url, source, options) ==
    /\ options.ExcludeHighDensityInlineScripts
    /\ inlineForDensity(url)
    /\ LET lines == Split(source)
           nonEmptyLines == Cardinality({k \in 1..Len(lines) : TrimSpace(lines[k]) # << >>})
           n == nonEmptyLines
       IN  n > 0 /\ countJavaScriptStatements(source) > options.MaxStatementsPerLine * n

systemPatterns ==
    << <<"c","o","n","s","o","l","e",".","l","o","g">>, <<"c","o","n","s","o","l","e",".","w","a","r","n">>, <<"c","o","n","s","o","l","e",".","e","r","r","o","r">>,
       <<"w","i","n","d","o","w",".","c","h","r","o","m","e">>, <<"w","i","n","d","o","w",".","_","_","R","E","A","C","T","_","D","E","V","T","O","O","L","S">>,
       <<"w","i","n","d","o","w",".","_","_","V","U","E","_","D","E","V","T","O","O","L","S">>, <<"w","i","n","d","o","w",".","a","n","g","u","l","a","r">>,
       <<"p","e","r","f","o","r","m","a","n","c","e",".","m","a","r","k">>, <<"p","e","r","f","o","r","m","a","n","c","e",".","m","e","a","s","u","r","e">>,
       <<"n","a","v","i","g","a","t","i","o","n",".","t","i","m","i","n","g">>, <<"w","i","n","d","o","w",".","p","e","r","f","o","r","m","a","n","c","e">>,
       <<"w","e","b","d","r","i","v","e","r">>, <<"p","h","a","n","t","o","m">>, <<"s","e","l","e","n","i","u","m">>, <<"p","u","p","p","e","t","e","e","r">>,
       <<"a","d","b","l","o","c","k">>, <<"u","b","l","o","c","k">>, <<"e","x","t","e","n","s","i","o","n">> >>

\* the inline test of the high-density rule used by this rule too
inlineForSystemAsDensity(url) == inlineForDensity(url)

\* strings.HasPrefix(URL, "inline-script-") || URL == ""
inlineForSystem(url) == HasPrefix(url, InlineScriptPrefix) \/ url = << >>

inlineSystemScript(url, source, options) ==
    /\ options.ExcludeInlineSystemScripts
    /\ inlineForSystem(url)
    /\ MatchesAny(source, systemPatterns) \/ isRepetitiveContent(source)

isApplicationScriptAllRules(url, source, options) ==
    IF CustomIncludeMatches(url, source, options)
        THEN Result(TRUE, "custom_include")
    ELSE IF inlineScriptBlocked(url)
        THEN Result(FALSE, "inline_script_blocked")
    ELSE IF emptyURL(url, options)
        THEN Result(FALSE, "empty_url")
    ELSE IF browserExtension(url, options)
        THEN Result(FALSE, "browser_extension")
    ELSE IF options.ExcludeDevTools /\ MatchesAny(source, (devToolsPatterns \o << <<"c","h","r","o","m","e","d","r","i","v","e","r">>, <<"s","e","l","e","n","i","u","m","w","e","b","d","r","i","v","e","r">> >>))
        THEN Result(FALSE, "devtools_framework")
    ELSE IF tooSmall(source, options)
        THEN Result(FALSE, "too_small")
    ELSE IF isBrowserInternal(source)
        THEN Result(FALSE, "browser_internal")
    ELSE IF options.ExcludeFrameworkTools /\ isFrameworkTool(url, source)
        THEN Result(FALSE, "framework_tools")
    ELSE IF options.ExcludeCDNLibraries /\ isCDNLibrary(url)
        THEN Result(FALSE, "cdn_library")
    ELSE IF options.ExcludeMinifiedCode /\ hasMinifiedURL(url)
        THEN Result(FALSE, "minified_code")
    ELSE IF options.ExcludeMinifiedCode /\ isGeneratedCode(source)
        THEN Result(FALSE, "generated_code")
    ELSE IF options.ExcludeMinifiedCode /\ looksMinified(source)
        THEN Result(FALSE, "minified_heuristic")
    ELSE IF options.ExcludeTestFrameworks /\ isTestFramework(url, source)
        THEN Result(FALSE, "test_framework")
    ELSE IF highDensityInline(url, source, options)
        THEN Result(FALSE, "high_density_inline")
    ELSE IF inlineSystemScript(url, source, options)
        THEN Result(FALSE, "inline_system_script")
    ELSE IF CustomExcludeMatches(url, source, options)
        THEN Result(FALSE, "custom_exclude")
    ELSE Result(TRUE, "application_script")

----------------------------------------------------------------------------
(* Browser and Page: the closed flag, the mutex and the calls in flight *)

MaxGoroutines == 2

BrowserClosedError == "browser is closed"

PageClosedError == "page is closed"

\* a goroutine that has not called anything yet
NotCalling ==
    [op |-> "", pc |-> "idle", closed |-> FALSE, ret |-> "", input |-> "",
     after |-> FALSE, flagged |-> FALSE, touched |-> FALSE]

\* Sources made of up to MaxLines lines: two long lines, a short one and a
\* line holding six "===".
MaxLines == 5

NewCoverageReporter == getFilterOptions("application")

IdleReport ==
    LET
        \* b := &Browser{...} and page := &Page{...}: not closed, mu unlocked (0, else
        \* the goroutine holding the write lock); the counters record what Close has
        \* done so far
        IdleLifecycle ==
            /\ browser = [closed |-> FALSE, mu |-> 0, cancelCalls |-> 0, closeCalls |-> 0, cleanupCalls |-> 0]
            /\ page = [closed |-> FALSE, mu |-> 0, cancelCalls |-> 0, closeCalls |-> 0]
            /\ calls = [g \in (1..MaxGoroutines) |-> NotCalling]
    IN
    /\ IdleLifecycle
    /\ filterOptions = NewCoverageReporter
    /\ raw = << >>
    /\ provided = << >>
    /\ pc = "idle"
    /\ idx = 0
    /\ entries = << >>
    /\ totalMetrics = ZeroMetrics
    /\ filterStats = [TotalScripts |-> 0, ApplicationScripts |-> 0, FilteredOut |-> 0,
                      FilterReasons |-> << >>, ProcessingTimeMs |-> 0, AverageTimePerScript |-> 0]

InitClassify ==
    LET
        ClassifyArgs ==
            LET
                \* ExcludeHighDensityInlineScripts and ExcludeInlineSystemScripts are set and
                \* cleared together; MaxStatementsPerLine keeps its base value.
                ClassifyOptions ==
                    LET
                        ClassifyPatterns ==
                            { [inc |-> << >>, exc |-> << >>],
                              [inc |-> << <<"A","P","P">> >>, exc |-> << >>],
                              [inc |-> << <<"z","z">>, <<"C","L","E","A","R">> >>, exc |-> << >>],
                              [inc |-> << >>, exc |-> << <<"a","p","p">> >>] }
                    IN
                    { [BaseOptions EXCEPT !.ExcludeEmptyURLs = t[1], !.ExcludeDevTools = t[2],
                                          !.ExcludeBrowserExt = t[3], !.ExcludeFrameworkTools = t[4],
                                          !.ExcludeCDNLibraries = t[5], !.ExcludeMinifiedCode = t[6],
                                          !.ExcludeTestFrameworks = t[7],
                                          !.ExcludeHighDensityInlineScripts = t[8],
                                          !.ExcludeInlineSystemScripts = t[8], !.MinScriptSize = m,
                                          !.CustomIncludePatterns = p.inc, !.CustomExcludePatterns = p.exc] :
                        t \in [1..8 -> BOOLEAN], m \in ({0, 16, 17}), p \in ClassifyPatterns }
            IN
                [url : ClassifyURLs, source : ClassifySources, options : ClassifyOptions]
    IN
        args \in ClassifyArgs /\ ret = NoCall /\ IdleReport

\* the call lower-casing the URL of the script it was handed
CallIsApplicationScriptMutating ==
    /\ ret = NoCall
    /\ ret' = [called |-> TRUE, value |-> isApplicationScript(args.url, args.source, args.options)]
    /\ args' = [args EXCEPT !.url = ToLower(args.url)]
    /\ UNCHANGED <<filterOptions, raw, provided, pc, idx, entries, totalMetrics, filterStats>>
    /\ UNCHANGED <<browser, page, calls>>

CallIsApplicationScript ==
    /\ ret = NoCall
    /\ ret' = [called |-> TRUE, value |-> isApplicationScript(args.url, args.source, args.options)]
    /\ UNCHANGED <<args, <<filterOptions, raw, provided, pc, idx, entries, totalMetrics, filterStats>>>>
    /\ UNCHANGED <<browser, page, calls>>

SpecClassify == InitClassify /\ [][CallIsApplicationScript]_vars

InitMetrics ==
    LET
        MetricsArgs ==
            LET
                MetricsFunctions ==
                    { << >>,
                      << [FunctionName |-> <<"f">>, Ranges |-> << >>] >>,
                      << [FunctionName |-> <<"f">>, Ranges |-> << Range(6, 0, 2) >>],
                         [FunctionName |-> <<"g">>, Ranges |-> << Range(0, 6, 0), Range(0, 0, 0) >>] >>,
                      << [FunctionName |-> <<"f">>, Ranges |-> << Range(12, 6, 2) >>],
                         [FunctionName |-> <<"g">>, Ranges |-> << Range(0, 0, 2) >>] >> }
            IN
            LET
                MetricsRanges == [StartOffset : ({-1, 0, 6, 12}), EndOffset : ({-1, 0, 6, 12}), Count : ({0, 2})]
            IN
            LET
                MetricsSources ==
                    { << >>,
                      <<"a","b",";","\n"," "," ","c",";">>,
                      <<"/","/"," ","c","\n","\n","x","(",")",";">>,
                      <<"f","(",")",";">>,
                      <<"a","(",")",";","\n","b","(",")",";">> }
            IN
            [source : MetricsSources, ranges : SeqsUpTo(MetricsRanges, MaxRanges), functions : MetricsFunctions]
    IN
        args \in MetricsArgs /\ ret = NoCall /\ IdleReport

CallCalculateCoverageMetrics ==
    /\ ret = NoCall
    /\ ret' = [called |-> TRUE, value |-> calculateCoverageMetrics(args.source, args.ranges, args.functions)]
    /\ UNCHANGED <<args, <<filterOptions, raw, provided, pc, idx, entries, totalMetrics, filterStats>>>>
    /\ UNCHANGED <<browser, page, calls>>

SpecMetrics == InitMetrics /\ [][CallCalculateCoverageMetrics]_vars

InitRepetitive ==
    LET
        RepetitiveArgs ==
            LET
                Repeat(c, n) == [i \in 1..n |-> c]
            IN
            LET
                RepetitiveSources ==
                    LET
                        RepetitiveLines == {Repeat("a", 50), Repeat("b", 50), <<"x">>, Repeat("=", 18)}
                    IN
                        {Join(lines, 1) : lines \in SeqsUpTo(RepetitiveLines, MaxLines)}
            IN
                [source : RepetitiveSources]
    IN
        args \in RepetitiveArgs /\ ret = NoCall /\ IdleReport

CallIsRepetitiveContent ==
    /\ ret = NoCall
    /\ ret' = [called |-> TRUE, value |-> isRepetitiveContent(args.source)]
    /\ UNCHANGED <<args, <<filterOptions, raw, provided, pc, idx, entries, totalMetrics, filterStats>>>>
    /\ UNCHANGED <<browser, page, calls>>

SpecRepetitive == InitRepetitive /\ [][CallIsRepetitiveContent]_vars

InitProfile ==
    LET
        \* A reporter given a profile by name, then classifying a script under it.
        ProfileArgs == [profile : ({"default", "development", "production", "application", "unknown", "", "Development", "prod", "application "}), url : ClassifyURLs, source : ClassifySources]
    IN
        args \in ProfileArgs /\ ret = NoCall /\ IdleReport

\* cr.SetFilterProfile(profile)
CallSetFilterProfile ==
    /\ pc = "idle"
    /\ filterOptions' = getFilterOptions(args.profile)
    /\ pc' = "configured"
    /\ UNCHANGED <<args, ret, raw, provided, idx, entries, totalMetrics, filterStats>>
    /\ UNCHANGED <<browser, page, calls>>

\* isApplicationScript(r, scriptSource, cr.filterOptions)
ClassifyUnderProfile ==
    /\ pc = "configured"
    /\ ret = NoCall
    /\ ret' = [called |-> TRUE, value |-> isApplicationScript(args.url, args.source, filterOptions)]
    /\ UNCHANGED <<args, <<filterOptions, raw, provided, pc, idx, entries, totalMetrics, filterStats>>>>
    /\ UNCHANGED <<browser, page, calls>>

NextProfile == CallSetFilterProfile \/ ClassifyUnderProfile

SpecProfile == InitProfile /\ [][NextProfile]_vars

InitAllRules ==
    LET
        AllRulesArgs ==
            LET
                InlineSources ==
                    { <<"c","o","n","s","o","l","e",".","l","o","g","(","v","a","l","u","e","1",")",";">>,
                      <<"w","i","n","d","o","w",".","p","e","r","f","o","r","m","a","n","c","e",".","m","a","r","k","(","b","e","g","i","n",")",";","\n","w","i","n","d","o","w",".","p","e","r","f","o","r","m","a","n","c","e",".","m","a","r","k","(","e","n","d",")",";">>,
                      <<"a","=","1",";","b","=","2",";","c","=","3",";","d","=","4",";","e","=","5",";","f","=","6",";","g","=","7",";","h","=","8",";","i","=","9",";","j","=","0",";","k","=","1",";","l","=","2",";","m","=","3",";","n","=","4",";">>,
                      <<"l","e","t"," ","t","o","t","a","l"," ","="," ","s","u","m","(","v","a","l","u","e","s",")",";"," ","s","h","o","w","(","t","o","t","a","l",")",";"," ","l","e","t"," ","o","t","h","e","r"," ","="," ","s","u","m","(","m","o","r","e",")",";">>,
                      <<"a","d","v","a","n","c","e","(","c","u","r","s","o","r",","," ","a","m","o","u","n","t",")",";","\n","a","d","v","a","n","c","e","(","c","u","r","s","o","r",","," ","a","m","o","u","n","t",")",";","\n","a","d","v","a","n","c","e","(","c","u","r","s","o","r",","," ","a","m","o","u","n","t",")",";","\n","a","d","v","a","n","c","e","(","c","u","r","s","o","r",","," ","a","m","o","u","n","t",")",";","\n","a","d","v","a","n","c","e","(","c","u","r","s","o","r",","," ","a","m","o","u","n","t",")",";">>,
                      <<"/","/"," ","a",";","b",";","c",";","d",";","e",";","f",";","g",";","h",";","i",";","j",";","k",";","l",";","m",";","\n","r","u","n","(",")",";"," ","/","*"," ","x",";"," ","y",";"," ","*","/"," ","s","t","o","p","(",")",";">> }
            IN
            LET
                \* The older classifier under a named profile: URLs that are inline for one
                \* rule or the other, and sources with a system signature, dense, repetitive,
                \* commented or plain.
                InlineURLs == {<< >>, <<"i","n","l","i","n","e","-","s","c","r","i","p","t","-","3">>, <<"m","y","-","i","n","l","i","n","e",".","j","s">>, <<"a","p","p",".","j","s">>, <<"I","n","l","i","n","e","/","x",".","j","s">>}
            IN
                [profile : ({"default", "development", "production", "application"}), url : InlineURLs, source : InlineSources]
    IN
        args \in AllRulesArgs /\ ret = NoCall /\ IdleReport

\* isApplicationScript(r, scriptSource, cr.filterOptions) of the older copy
ClassifyAllRules ==
    /\ pc = "configured"
    /\ ret = NoCall
    /\ ret' = [called |-> TRUE, value |-> isApplicationScriptAllRules(args.url, args.source, filterOptions)]
    /\ UNCHANGED <<args, <<filterOptions, raw, provided, pc, idx, entries, totalMetrics, filterStats>>>>
    /\ UNCHANGED <<browser, page, calls>>

NextAllRules == CallSetFilterProfile \/ ClassifyAllRules

SpecAllRules == InitAllRules /\ [][NextAllRules]_vars

----------------------------------------------------------------------------
(* CoverageReporter: NewCoverageReporter, SetFilterProfile, generateJSReportUnified *)

Fn(name, ranges) == [FunctionName |-> name, Ranges |-> ranges]

Script(url, functions, source, err) ==
    [URL |-> url, Functions |-> functions, source |-> source, err |-> err]

\* The scripts a report is generated over: what the browser hands in (URL,
\* Functions) and what sourceProvider returns for it (source, err).
ScriptUniverse ==
    << Script(<< >>, << >>, <<"c","o","n","s","o","l","e",".","c","l","e","a","r","(",")">>, FALSE),
       Script(<<"a","p","p",".","j","s">>, << Fn(<<"f">>, << Range(0, 16, 3) >>) >>, <<"l","e","t"," ","a"," ","="," ","1",";"," ","b","(","a",")",";">>, FALSE),
       Script(<<"h","t","t","p","s",":","/","/","c","d","n",".","j","s","d","e","l","i","v","r",".","n","e","t","/","x",".","j","s">>, << Fn(<<"f">>, << Range(0, 3, 1) >>) >>, <<"x","=","1">>, FALSE),
       Script(<<"h","t","t","p","s",":","/","/","c","d","n",".","j","s","d","e","l","i","v","r",".","n","e","t","/","x",".","j","s">>, << >>, <<"l","e","t"," ","a"," ","="," ","1",";"," ","b","(","a",")",";">>, FALSE),
       Script(<<"a","p","p",".","j","s">>, << Fn(<<"f">>, << Range(0, 10, 1) >>), Fn(<<"g">>, << Range(5, 15, 1) >>) >>,
              <<"i","f"," ","(","a",")"," ","{","\n"," "," ","b","(",")",";","\n","}","\n","\n","d","(",")",";">>, FALSE),
       Script(<<"a","p","p",".","j","s">>, << Fn(<<"f">>, << Range(0, 5, 1) >>) >>, << >>, TRUE),
       Script(<<"l","i","b",".","j","s">>, << Fn(<<"f">>, << Range(0, 5, 1) >>) >>, << >>, FALSE),
       Script(<<"i","n","l","i","n","e","-","s","c","r","i","p","t","-","7">>, << >>, <<"l","e","t"," ","a"," ","="," ","1",";"," ","b","(","a",")",";">>, FALSE),
       Script(<<"b",".","j","s">>, << >>, <<"v","a","r"," ","p","r","o","d","u","c","t"," ","="," ","1",";">>, FALSE),
       Script(<<"c","h","r","o","m","e","-","e","x","t","e","n","s","i","o","n",":","/","/","x","/","y",".","j","s">>, << >>, <<"l","e","t"," ","a"," ","="," ","1",";"," ","b","(","a",")",";">>, FALSE),
       Script(<<"n","e","g",".","j","s">>, << Fn(<<"f">>, << Range(-1, 5, 1) >>) >>, <<"l","e","t"," ","a"," ","="," ","1",";"," ","b","(","a",")",";">>, FALSE),
       Script(<<"z",".","j","s">>, << Fn(<<"f">>, << Range(0, 99, 0), Range(26, 29, 2), Range(9, 3, 1) >>), Fn(<<"g">>, << >>) >>,
              <<"f","u","n","c","t","i","o","n"," ","f","(",")"," ","{","\n"," "," ","/","/"," ","c","\n"," "," "," "," ","g","(",")","\n","}">>, FALSE) >>

\* proto.ProfilerScriptCoverage: the browser gives every script its own id
ScriptCoverage(k, u) ==
    [ScriptID |-> <<<<"1","2","3","4","5","6","7","8","9">>[k]>>, URL |-> ScriptUniverse[u].URL, Functions |-> ScriptUniverse[u].Functions]

SourceResult(u) == [source |-> ScriptUniverse[u].source, err |-> ScriptUniverse[u].err]

SetFilterProfile ==
    /\ pc = "idle"
    /\ \E profile \in ({"default", "development", "production", "application", "unknown", "", "Development", "prod", "application "}) : filterOptions' = getFilterOptions(profile)
    /\ UNCHANGED <<args, ret, raw, provided, pc, idx, entries, totalMetrics, filterStats>>
    /\ UNCHANGED <<browser, page, calls>>

\* entry of generateJSReportUnified, up to the loop
StartReport ==
    /\ pc = "idle"
    /\ \E pick \in SeqsUpTo(1..Len(ScriptUniverse), MaxScripts) :
        /\ raw' = [k \in 1..Len(pick) |-> ScriptCoverage(k, pick[k])]
        /\ provided' = [k \in 1..Len(pick) |-> SourceResult(pick[k])]
        /\ filterStats' = [TotalScripts |-> Len(pick), ApplicationScripts |-> 0, FilteredOut |-> 0,
                           FilterReasons |-> << >>, ProcessingTimeMs |-> 0, AverageTimePerScript |-> 0]
    /\ entries' = << >>
    /\ totalMetrics' = ZeroMetrics
    /\ idx' = 1
    /\ pc' = "loop"
    /\ UNCHANGED <<args, ret, filterOptions>>
    /\ UNCHANGED <<browser, page, calls>>

\* the URL kept as it is when it is not empty
displayURLWithoutID(r) == IF r.URL = << >> THEN <<"S","c","r","i","p","t","_">> \o r.ScriptID ELSE r.URL

displayURL(r) == IF r.URL = << >> THEN <<"S","c","r","i","p","t","_">> \o r.ScriptID ELSE r.URL \o <<"#">> \o r.ScriptID

RECURSIVE collectRanges(_, _)
collectRanges(functions, k) ==
    IF k > Len(functions) THEN << >> ELSE functions[k].Ranges \o collectRanges(functions, k + 1)

FileEntry(r, scriptSource, metrics) ==
    [ScriptID |-> r.ScriptID, URL |-> displayURL(r), Source |-> scriptSource,
     Lines |-> Split(scriptSource), Ranges |-> collectRanges(r.Functions, 1), Metrics |-> metrics]

\* the total overwritten by the file's values instead of accumulated
AddStatLastWins(t, m) == [t EXCEPT !.Total = m.Total, !.Covered = m.Covered]

AddStat(t, m) == [t EXCEPT !.Total = t.Total + m.Total, !.Covered = t.Covered + m.Covered]

sourceUnavailableErrOnly(p) == p.err

\* if err != nil || scriptSource == ""
sourceUnavailable(p) == p.err \/ p.source = << >>

\* one iteration of `for i, r := range raw`
ProcessScript ==
    LET
        AddMetrics(t, m) ==
            [t EXCEPT !.Statements = AddStat(t.Statements, m.Statements),
                      !.Functions = AddStat(t.Functions, m.Functions),
                      !.Lines = AddStat(t.Lines, m.Lines)]
    IN
    /\ pc = "loop"
    /\ idx <= Len(raw)
    /\ LET r == raw[idx]
           p == provided[idx]
       IN  IF sourceUnavailable(p)
           THEN /\ filterStats' = [filterStats EXCEPT !.FilterReasons = Incr(filterStats.FilterReasons, "source_unavailable")]
                /\ idx' = idx + 1
                /\ UNCHANGED <<pc, entries, totalMetrics>>
           ELSE LET res == isApplicationScript(r.URL, p.source, filterOptions)
                IN  /\ filterStats' = [filterStats EXCEPT !.FilterReasons = Incr(filterStats.FilterReasons, res.reason)]
                    /\ IF ~res.isApp
                       THEN /\ idx' = idx + 1
                            /\ UNCHANGED <<pc, entries, totalMetrics>>
                       ELSE LET m == calculateCoverageMetrics(p.source, collectRanges(r.Functions, 1), r.Functions)
                            IN  IF m.panic
                                THEN /\ pc' = "panic"
                                     /\ UNCHANGED <<idx, entries, totalMetrics>>
                                ELSE /\ entries' = Append(entries, FileEntry(r, p.source, m.value))
                                     /\ totalMetrics' = AddMetrics(totalMetrics, m.value)
                                     /\ idx' = idx + 1
                                     /\ UNCHANGED pc
    /\ UNCHANGED <<args, ret, filterOptions, raw, provided>>
    /\ UNCHANGED <<browser, page, calls>>

\* the division made whatever the total is
totalPctUnguarded(stat) == [stat EXCEPT !.Pct = calculatePctUnguarded(stat.Covered, stat.Total)]

\* if total.Total > 0 { total.Pct = float64(total.Covered) / float64(total.Total) * 100 }
totalPct(stat) ==
    IF stat.Total > 0 THEN [stat EXCEPT !.Pct = Rat(stat.Covered * PercentScale, stat.Total)] ELSE stat

\* filterStats.FilteredOut computed before ApplicationScripts is set
finalStatsStale(stats, es) ==
    [stats EXCEPT !.ApplicationScripts = Len(es),
                  !.FilteredOut = stats.TotalScripts - stats.ApplicationScripts]

\* filterStats.ApplicationScripts = len(entries); FilteredOut = TotalScripts - ApplicationScripts
finalStats(stats, es) ==
    [stats EXCEPT !.ApplicationScripts = Len(es),
                  !.FilteredOut = stats.TotalScripts - Len(es)]

\* generateFilteringStats: nothing is rendered without reasons; otherwise one
\* row per reason with Percentage = count / TotalScripts * 100 (a float
\* division, by zero it gives Inf, written n/0 here)
generateFilteringStats(stats) ==
    IF DOMAIN stats.FilterReasons = {} THEN << >>
    ELSE [reason \in DOMAIN stats.FilterReasons |->
             [Count |-> stats.FilterReasons[reason],
              Percentage |-> IF stats.TotalScripts = 0
                             THEN [num |-> stats.FilterReasons[reason], den |-> 0]
                             ELSE Rat(stats.FilterReasons[reason] * PercentScale, stats.TotalScripts)]]

\* what follows the loop: the final statistics, the percentages, the sort
FinishReport ==
    LET
        \* sort.Slice(entries, less by URL): some ordering of the entries in which no
        \* entry precedes one with a smaller URL; the order of equal URLs is not fixed.
        sortedByURL(es) ==
            { [k \in 1..Len(es) |-> es[p[k]]] :
                p \in { q \in [1..Len(es) -> 1..Len(es)] :
                          /\ \A a, b \in 1..Len(es) : a # b => q[a] # q[b]
                          /\ \A a, b \in 1..Len(es) : a < b => ~StrLess(es[q[b]].URL, es[q[a]].URL) } }
    IN
    /\ pc = "loop"
    /\ idx > Len(raw)
    /\ filterStats' = finalStats(filterStats, entries)
    /\ totalMetrics' = [totalMetrics EXCEPT !.Statements = totalPct(totalMetrics.Statements),
                                            !.Functions = totalPct(totalMetrics.Functions),
                                            !.Lines = totalPct(totalMetrics.Lines)]
    /\ entries' \in sortedByURL(entries)
    /\ pc' = "done"
    /\ UNCHANGED <<args, ret, filterOptions, raw, provided, idx>>
    /\ UNCHANGED <<browser, page, calls>>

\* Scripts of several pages put into one raw list: the browser numbers the
\* scripts of each page by itself, so the same URL and the same id can come twice.
PageScripts ==
    << Script(<<"a","p","p",".","j","s">>, << Fn(<<"f">>, << Range(0, 16, 3) >>) >>, <<"l","e","t"," ","a"," ","="," ","1",";"," ","b","(","a",")",";">>, FALSE),
       Script(<<"a","p","p",".","j","s">>, << Fn(<<"f">>, << Range(0, 5, 1) >>) >>, <<"i","f"," ","(","a",")"," ","{","\n"," "," ","b","(",")",";","\n","}","\n","\n","d","(",")",";">>, FALSE),
       Script(<<"l","i","b",".","j","s">>, << >>, <<"l","e","t"," ","a"," ","="," ","1",";"," ","b","(","a",")",";">>, FALSE),
       Script(<<"i","n","l","i","n","e","-","s","c","r","i","p","t","-","7">>, << >>, <<"l","e","t"," ","a"," ","="," ","1",";"," ","b","(","a",")",";">>, FALSE) >>

\* entry of generateJSReportUnified with a raw list collected from several pages
StartReportFromPages ==
    /\ pc = "idle"
    /\ \E pick \in SeqsUpTo(1..Len(PageScripts), MaxScripts) :
       \E ids \in [1..Len(pick) -> ({<<"1">>, <<"2">>})] :
        /\ raw' = [k \in 1..Len(pick) |->
                      [ScriptID |-> ids[k], URL |-> PageScripts[pick[k]].URL,
                       Functions |-> PageScripts[pick[k]].Functions]]
        /\ provided' = [k \in 1..Len(pick) |->
                      [source |-> PageScripts[pick[k]].source, err |-> PageScripts[pick[k]].err]]
        /\ filterStats' = [TotalScripts |-> Len(pick), ApplicationScripts |-> 0, FilteredOut |-> 0,
                           FilterReasons |-> << >>, ProcessingTimeMs |-> 0, AverageTimePerScript |-> 0]
    /\ entries' = << >>
    /\ totalMetrics' = ZeroMetrics
    /\ idx' = 1
    /\ pc' = "loop"
    /\ UNCHANGED <<args, ret, filterOptions>>
    /\ UNCHANGED <<browser, page, calls>>

----------------------------------------------------------------------------
(* CoverageReporter.GenerateReport *)

CoverageRange(start, end, count) == [Start |-> start, End |-> end, Count |-> count]

CoverageEntry(url, source, ranges) == [URL |-> url, Source |-> source, Ranges |-> ranges]

\* ids are fmt.Sprintf("script-%d", i) with i counted from 0
convertToOldCoverageFormat(es) ==
    [i \in 1..Len(es) |->
        [ScriptID  |-> <<"s","c","r","i","p","t","-">> \o <<<<"0","1","2","3","4","5","6","7","8","9">>[i]>>,
         URL       |-> es[i].URL,
         Functions |-> IF Len(es[i].Ranges) > 0
                       THEN << [FunctionName |-> << >>,
                                Ranges |-> [j \in 1..Len(es[i].Ranges) |->
                                              Range(es[i].Ranges[j].Start, es[i].Ranges[j].End,
                                                    es[i].Ranges[j].Count)]] >>
                       ELSE << >>]]

\* the provider called with a 1-based index here
createSourceProviderFromEntries(es, index) ==
    IF index < 1 \/ index > Len(es) THEN [source |-> << >>, err |-> TRUE]
    ELSE IF es[index].Source = << >> THEN [source |-> << >>, err |-> TRUE]
    ELSE [source |-> es[index].Source, err |-> FALSE]

RECURSIVE sumBytes(_, _)
sumBytes(es, k) ==
    LET
        coveredBytesOf(entry) ==
            Cardinality({ i \in 0..(Len(entry.Source) - 1) :
                            \E j \in DOMAIN entry.Ranges :
                                LET r == entry.Ranges[j]
                                IN  /\ r.Count > 0 /\ r.Start >= 0 /\ r.End <= Len(entry.Source)
                                    /\ r.Start <= i /\ i < r.End })
    IN
    IF k > Len(es) THEN [total |-> 0, covered |-> 0]
    ELSE LET rest == sumBytes(es, k + 1)
         IN  IF es[k].Source = << >> THEN rest
             ELSE [total |-> rest.total + Len(es[k].Source),
                   covered |-> rest.covered + coveredBytesOf(es[k])]

\* GenerateReport up to the loop of generateJSReportUnified
StartGenerateReport ==
    LET
        \* The coverage entries GenerateReport is called with.
        CoverageEntries ==
            { CoverageEntry(<<"a","p","p",".","j","s">>, <<"l","e","t"," ","a"," ","="," ","1",";"," ","b","(","a",")",";">>, << CoverageRange(0, 16, 3) >>),
              CoverageEntry(<<"i","n","l","i","n","e","-","s","c","r","i","p","t","-","7">>, <<"l","e","t"," ","a"," ","="," ","1",";"," ","b","(","a",")",";">>, << >>),
              CoverageEntry(<<"a","p","p",".","j","s">>, <<"i","f"," ","(","a",")"," ","{","\n"," "," ","b","(",")",";","\n","}","\n","\n","d","(",")",";">>, << CoverageRange(0, 10, 1), CoverageRange(5, 15, 1) >>),
              CoverageEntry(<<"l","i","b",".","j","s">>, << >>, << CoverageRange(0, 5, 1) >>),
              CoverageEntry(<<"b",".","j","s">>, <<"l","e","t"," ","a"," ","="," ","1",";"," ","b","(","a",")",";">>, << CoverageRange(10, 99, 1), CoverageRange(0, 4, 0) >>),
              CoverageEntry(<<"n","e","g",".","j","s">>, <<"l","e","t"," ","a"," ","="," ","1",";"," ","b","(","a",")",";">>, << CoverageRange(-1, 5, 1) >>) }
    IN
    /\ pc = "idle"
    /\ args = ([none |-> TRUE])
    /\ \E es \in SeqsUpTo(CoverageEntries, MaxScripts) :
        /\ args' = [entries |-> es]
        /\ raw' = convertToOldCoverageFormat(es)
        /\ provided' = [k \in 1..Len(es) |-> createSourceProviderFromEntries(es, k)]
        /\ filterStats' = [TotalScripts |-> Len(es), ApplicationScripts |-> 0, FilteredOut |-> 0,
                           FilterReasons |-> << >>, ProcessingTimeMs |-> 0, AverageTimePerScript |-> 0]
    /\ entries' = << >>
    /\ totalMetrics' = ZeroMetrics
    /\ idx' = 1
    /\ pc' = "loop"
    /\ UNCHANGED <<ret, filterOptions>>
    /\ UNCHANGED <<browser, page, calls>>

\* GenerateReport after generateJSReportUnified has returned: the percentage
\* handed to generateCoverageIndex
WriteCoverageIndex ==
    LET
        computeJavaScriptCoverageFromEntries(es) ==
            LET b == sumBytes(es, 1)
            IN  IF b.total = 0 THEN ([num |-> 0, den |-> 1]) ELSE Rat(b.covered * PercentScale, b.total)
    IN
    /\ pc = "done"
    /\ args # ([none |-> TRUE])
    /\ ret' = [called |-> TRUE, value |-> computeJavaScriptCoverageFromEntries(args.entries)]
    /\ pc' = "indexed"
    /\ UNCHANGED <<args, filterOptions, raw, provided, idx, entries, totalMetrics, filterStats>>
    /\ UNCHANGED <<browser, page, calls>>

Init == args = ([none |-> TRUE]) /\ ret = NoCall /\ IdleReport

Next == SetFilterProfile \/ StartReport \/ ProcessScript \/ FinishReport

Spec == Init /\ [][Next]_vars

\* a script dropped only when the request for its source fails
scriptWithoutSourceErrOnly(p) == p.err

\* if err != nil || srcResp.ScriptSource == "" { continue }
scriptWithoutSource(p) == p.err \/ p.source = << >>

\* the URL of the script as the browser reported it
entryURLAsReported(script) == script.URL

\* url := script.URL; if url == "" { url = fmt.Sprintf("inline-script-%s", script.ScriptID) }
entryURL(script) ==
    IF script.URL = << >> THEN InlineScriptPrefix \o script.ScriptID ELSE script.URL

\* StopJSCoverage on an open page, from the loop over result.Result on:
\* sources[k] is what DebuggerGetScriptSource answers for result[k]
RECURSIVE StopJSCoverageEntries(_, _, _)
StopJSCoverageEntries(result, sources, k) ==
    LET
        \* the ranges of all functions of the script, as CoverageRange values
        entryRanges(script) ==
            LET ranges == collectRanges(script.Functions, 1)
            IN  [j \in 1..Len(ranges) |->
                    CoverageRange(ranges[j].StartOffset, ranges[j].EndOffset, ranges[j].Count)]
    IN
    IF k > Len(result) THEN << >>
    ELSE IF scriptWithoutSource(sources[k]) THEN StopJSCoverageEntries(result, sources, k + 1)
    ELSE << CoverageEntry(entryURL(result[k]), sources[k].source, entryRanges(result[k])) >>
         \o StopJSCoverageEntries(result, sources, k + 1)

\* page.StopJSCoverage() on a page the browser reports some scripts for
CallStopJSCoverage ==
    /\ pc = "idle"
    /\ args = ([none |-> TRUE])
    /\ \E pick \in SeqsUpTo(1..Len(ScriptUniverse), MaxScripts) :
        LET result  == [k \in 1..Len(pick) |-> ScriptCoverage(k, pick[k])]
            sources == [k \in 1..Len(pick) |-> SourceResult(pick[k])]
        IN  args' = [result |-> result, sources |-> sources,
                     entries |-> StopJSCoverageEntries(result, sources, 1)]
    /\ UNCHANGED <<ret, <<filterOptions, raw, provided, pc, idx, entries, totalMetrics, filterStats>>>>
    /\ UNCHANGED <<browser, page, calls>>

\* GenerateReport(entries, ...) with the entries StopJSCoverage returned, up to
\* the loop of generateJSReportUnified
GenerateReportOfCoverage ==
    /\ pc = "idle"
    /\ args # ([none |-> TRUE])
    /\ raw' = convertToOldCoverageFormat(args.entries)
    /\ provided' = [k \in 1..Len(args.entries) |-> createSourceProviderFromEntries(args.entries, k)]
    /\ filterStats' = [TotalScripts |-> Len(args.entries), ApplicationScripts |-> 0, FilteredOut |-> 0,
                       FilterReasons |-> << >>, ProcessingTimeMs |-> 0, AverageTimePerScript |-> 0]
    /\ entries' = << >>
    /\ totalMetrics' = ZeroMetrics
    /\ idx' = 1
    /\ pc' = "loop"
    /\ UNCHANGED <<args, ret, filterOptions>>
    /\ UNCHANGED <<browser, page, calls>>

NextCoverage ==
    \/ SetFilterProfile \/ CallStopJSCoverage \/ GenerateReportOfCoverage
    \/ ProcessScript \/ FinishReport \/ WriteCoverageIndex

SpecCoverage == Init /\ [][NextCoverage]_vars

\* the class of each line of the entry: "line-covered", "line-uncovered" or ""
generateSourceLines(entry) ==
    LET sourceLen == Len(entry.Source)
        built     == buildCoverage(sourceLen, entry.Ranges)
    IN  IF built.panic THEN Panic
        ELSE
        LET coverage == built.bits
            lineClass(lineNum) ==
                LET line      == entry.Lines[lineNum]
                    lineStart == SumLens(entry.Lines, lineNum - 1)
                    lineEnd   == lineStart + Len(line)
                    trimmed   == TrimSpace(line)
                IN  IF /\ trimmed # << >>
                       /\ ~HasPrefix(trimmed, <<"/","/">>)
                       /\ ~HasPrefix(trimmed, <<"/", "*">>)
                    THEN IF \E k \in lineStart..(lineEnd - 1) : k \in DOMAIN coverage /\ coverage[k]
                         THEN "line-covered"
                         ELSE "line-uncovered"
                    ELSE ""
        IN  Ok([lineNum \in 1..Len(entry.Lines) |-> lineClass(lineNum)])

\* generateFileDetails(entries): the source lines of every file entry, after
\* generateJSReportUnified has sorted the entries
GenerateFileDetails ==
    /\ pc = "done"
    /\ ret' = [called |-> TRUE,
               value |-> [n \in 1..Len(entries) |-> generateSourceLines(entries[n])]]
    /\ pc' = "rendered"
    /\ UNCHANGED <<args, filterOptions, raw, provided, idx, entries, totalMetrics, filterStats>>
    /\ UNCHANGED <<browser, page, calls>>

NextRender ==
    SetFilterProfile \/ StartReport \/ ProcessScript \/ FinishReport \/ GenerateFileDetails

SpecRender == Init /\ [][NextRender]_vars

NextPages == SetFilterProfile \/ StartReportFromPages \/ ProcessScript \/ FinishReport

SpecPages == Init /\ [][NextPages]_vars

NextGenerate ==
    SetFilterProfile \/ StartGenerateReport \/ ProcessScript \/ FinishReport \/ WriteCoverageIndex

SpecGenerate == Init /\ [][NextGenerate]_vars

----------------------------------------------------------------------------
(* Browser: Close, NewPage, Pages, IsConnected called from several goroutines *)

\* some Close call has returned: its record is still in place, or a later call
\* of the same goroutine carries the fact along
CloseHasReturned(op) ==
    \E g \in (1..MaxGoroutines) :
        \/ calls[g].after
        \/ calls[g].op = op /\ calls[g].pc = "done"

\* what a method leaves behind when it returns
Return(c, value, contacted) ==
    [c EXCEPT !.pc = "done", !.ret = value, !.touched = contacted]

\* a goroutine enters one of the methods of b
CallBrowser(g) ==
    /\ calls[g].pc \in {"idle", "done"}
    /\ \E op \in ({"Close", "NewPage", "Pages", "IsConnected"}) :
        calls' = [calls EXCEPT ![g] =
                    [NotCalling EXCEPT !.op = op, !.pc = "start",
                                       !.after = CloseHasReturned("Close"),
                                       !.flagged = browser.closed]]
    /\ UNCHANGED <<browser, page>>

\* b.mu.Lock(); defer b.mu.Unlock()
BrowserCloseLock(g) ==
    /\ calls[g].op = "Close" /\ calls[g].pc = "start"
    /\ browser.mu = 0
    /\ browser' = [browser EXCEPT !.mu = g]
    /\ calls' = [calls EXCEPT ![g].pc = "locked"]
    /\ UNCHANGED page

\* a Close that closes again whatever the flag says
closedAlreadyIgnored(b) == FALSE

\* if b.closed { return nil }
closedAlready(b) == b.closed

\* if b.closed { return nil }; b.closed = true
BrowserCloseCheck(g) ==
    /\ calls[g].op = "Close" /\ calls[g].pc = "locked"
    /\ IF closedAlready(browser)
         THEN /\ browser' = [browser EXCEPT !.mu = 0]
              /\ calls' = [calls EXCEPT ![g] = Return(@, "nil", FALSE)]
         ELSE /\ browser' = [browser EXCEPT !.closed = TRUE]
              /\ calls' = [calls EXCEPT ![g].pc = "closing"]
    /\ UNCHANGED page

\* b.cancel(); b.browser.Close(); b.launcher.Cleanup(); the deferred Unlock
BrowserCloseFinish(g) ==
    /\ calls[g].op = "Close" /\ calls[g].pc = "closing"
    /\ \E failed \in BOOLEAN :
        /\ browser' = [browser EXCEPT !.mu = 0,
                                      !.cancelCalls = @ + 1,
                                      !.closeCalls = @ + 1,
                                      !.cleanupCalls = IF failed THEN @ ELSE @ + 1]
        /\ calls' = [calls EXCEPT ![g] =
                        Return(@, IF failed THEN "failed to close browser" ELSE "nil", TRUE)]
    /\ UNCHANGED page

\* a snapshot that never sees the flag
closedSnapshotStale(b) == FALSE

\* b.mu.RLock(); closed := b.closed; b.mu.RUnlock()
closedSnapshot(b) == b.closed

\* NewPage and Pages: the snapshot of the flag under the read lock
BrowserReadClosed(g) ==
    /\ calls[g].op \in {"NewPage", "Pages"} /\ calls[g].pc = "start"
    /\ browser.mu = 0
    /\ calls' = [calls EXCEPT ![g].pc = "checked", ![g].closed = closedSnapshot(browser)]
    /\ UNCHANGED <<browser, page>>

\* NewPage after the snapshot: the error, or b.browser.Page and SetViewport
NewPage(g) ==
    /\ calls[g].op = "NewPage" /\ calls[g].pc = "checked"
    /\ IF calls[g].closed
         THEN calls' = [calls EXCEPT ![g] = Return(@, BrowserClosedError, FALSE)]
         ELSE \E outcome \in {"page", "failed to create page", "failed to set viewport"} :
                calls' = [calls EXCEPT ![g] = Return(@, outcome, TRUE)]
    /\ UNCHANGED <<browser, page>>

\* Pages after the snapshot: the error, or b.browser.Pages
Pages(g) ==
    /\ calls[g].op = "Pages" /\ calls[g].pc = "checked"
    /\ IF calls[g].closed
         THEN calls' = [calls EXCEPT ![g] = Return(@, BrowserClosedError, FALSE)]
         ELSE \E outcome \in {"pages", "failed to get pages"} :
                calls' = [calls EXCEPT ![g] = Return(@, outcome, TRUE)]
    /\ UNCHANGED <<browser, page>>

\* IsConnected, all of it under the read lock
IsConnected(g) ==
    /\ calls[g].op = "IsConnected" /\ calls[g].pc = "start"
    /\ browser.mu = 0
    /\ IF browser.closed
         THEN calls' = [calls EXCEPT ![g] = Return(@, "false", FALSE)]
         ELSE \E outcome \in {"true", "false"} :
                calls' = [calls EXCEPT ![g] = Return(@, outcome, TRUE)]
    /\ UNCHANGED <<browser, page>>

NextBrowser ==
    \E g \in (1..MaxGoroutines) :
        /\ \/ CallBrowser(g)
           \/ BrowserCloseLock(g)
           \/ BrowserCloseCheck(g)
           \/ BrowserCloseFinish(g)
           \/ BrowserReadClosed(g)
           \/ NewPage(g)
           \/ Pages(g)
           \/ IsConnected(g)
        /\ UNCHANGED <<args, ret, <<filterOptions, raw, provided, pc, idx, entries, totalMetrics, filterStats>>>>

SpecBrowser == Init /\ [][NextBrowser]_vars

----------------------------------------------------------------------------
(* Page: Close and the methods that check the closed flag first *)

\* what each method returns once it has contacted the browser
PageOutcomes ==
    [Navigate |-> {"nil", "failed to navigate"},
     NavigateWithContext |-> {"nil", "failed to navigate"},
     Title |-> {"title", "failed to get page info"},
     Element |-> {"element", "element not found"},
     Elements |-> {"elements", "failed to find elements"},
     WaitForElementWithContext |-> {"element", "element not found"},
     StartJSCoverage |-> {"nil", "failed to start precise coverage"},
     StopJSCoverage |-> {"entries", "failed to take coverage snapshot"}]

\* a snapshot that never sees the flag
pageClosedSnapshotStale(p) == FALSE

\* p.mu.RLock(); closed := p.closed; p.mu.RUnlock()
pageClosedSnapshot(p) == p.closed

\* a goroutine enters Close
CallPageClose(g) ==
    /\ calls[g].pc \in {"idle", "done"}
    /\ calls' = [calls EXCEPT ![g] =
                    [NotCalling EXCEPT !.op = "Close", !.pc = "start",
                                       !.after = CloseHasReturned("Close")]]
    /\ UNCHANGED <<browser, page>>

\* a goroutine enters one of the other methods of p, which begins with the
\* snapshot of the flag under the read lock
CallPage(g) ==
    /\ calls[g].pc \in {"idle", "done"}
    /\ page.mu = 0
    /\ \E op \in (DOMAIN PageOutcomes \cup {"Close", "URL", "WaitForElement", "Screenshot"}) \ {"Close"} :
        \E selector \in IF op = "Screenshot" THEN ({"", "#a"}) ELSE {""} :
            calls' = [calls EXCEPT ![g] =
                        [NotCalling EXCEPT !.op = op, !.pc = "checked", !.input = selector,
                                           !.closed = pageClosedSnapshot(page),
                                           !.after = CloseHasReturned("Close")]]
    /\ UNCHANGED <<browser, page>>

\* p.mu.Lock(); defer p.mu.Unlock()
PageCloseLock(g) ==
    /\ calls[g].op = "Close" /\ calls[g].pc = "start"
    /\ page.mu = 0
    /\ page' = [page EXCEPT !.mu = g]
    /\ calls' = [calls EXCEPT ![g].pc = "locked"]
    /\ UNCHANGED browser

\* if p.closed { return nil }; p.closed = true
PageCloseCheck(g) ==
    /\ calls[g].op = "Close" /\ calls[g].pc = "locked"
    /\ IF page.closed
         THEN /\ page' = [page EXCEPT !.mu = 0]
              /\ calls' = [calls EXCEPT ![g] = Return(@, "nil", FALSE)]
         ELSE /\ page' = [page EXCEPT !.closed = TRUE]
              /\ calls' = [calls EXCEPT ![g].pc = "closing"]
    /\ UNCHANGED browser

\* p.cancel(); p.page.Close(); the deferred Unlock
PageCloseFinish(g) ==
    /\ calls[g].op = "Close" /\ calls[g].pc = "closing"
    /\ \E failed \in BOOLEAN :
        /\ page' = [page EXCEPT !.mu = 0, !.cancelCalls = @ + 1, !.closeCalls = @ + 1]
        /\ calls' = [calls EXCEPT ![g] =
                        Return(@, IF failed THEN "failed to close page" ELSE "nil", TRUE)]
    /\ UNCHANGED browser

\* the snapshot taken by the method WaitForElement or Screenshot calls
PageReadClosed(g) ==
    /\ calls[g].op \in {"WaitForElement", "Screenshot"}
    /\ calls[g].pc = "inner"
    /\ page.mu = 0
    /\ calls' = [calls EXCEPT ![g].pc = "innerchecked",
                              ![g].closed = pageClosedSnapshot(page)]
    /\ UNCHANGED <<browser, page>>

\* if closed { return ..., fmt.Errorf("page is closed") }, else the browser is asked
Respond(g, outcomes) ==
    IF calls[g].closed
      THEN calls' = [calls EXCEPT ![g] = Return(@, PageClosedError, FALSE)]
      ELSE \E outcome \in outcomes : calls' = [calls EXCEPT ![g] = Return(@, outcome, TRUE)]

PageRequest(g, op) ==
    /\ calls[g].op = op /\ calls[g].pc = "checked"
    /\ Respond(g, PageOutcomes[op])
    /\ UNCHANGED <<browser, page>>

Navigate(g) == PageRequest(g, "Navigate")

NavigateWithContext(g) == PageRequest(g, "NavigateWithContext")

Title(g) == PageRequest(g, "Title")

Element(g) == PageRequest(g, "Element")

Elements(g) == PageRequest(g, "Elements")

StartJSCoverage(g) == PageRequest(g, "StartJSCoverage")

StopJSCoverage(g) == PageRequest(g, "StopJSCoverage")

\* URL: "" when closed or when p.page.Info fails
URL(g) ==
    /\ calls[g].op = "URL" /\ calls[g].pc = "checked"
    /\ IF calls[g].closed
         THEN calls' = [calls EXCEPT ![g] = Return(@, "", FALSE)]
         ELSE \E outcome \in {"url", ""} : calls' = [calls EXCEPT ![g] = Return(@, outcome, TRUE)]
    /\ UNCHANGED <<browser, page>>

\* WaitForElement: the error, or the call of WaitForElementWithContext
WaitForElement(g) ==
    /\ calls[g].op = "WaitForElement" /\ calls[g].pc = "checked"
    /\ IF calls[g].closed
         THEN calls' = [calls EXCEPT ![g] = Return(@, PageClosedError, FALSE)]
         ELSE calls' = [calls EXCEPT ![g].pc = "inner"]
    /\ UNCHANGED <<browser, page>>

\* WaitForElementWithContext, called directly or by WaitForElement
WaitForElementWithContext(g) ==
    /\ \/ calls[g].op = "WaitForElementWithContext" /\ calls[g].pc = "checked"
       \/ calls[g].op = "WaitForElement" /\ calls[g].pc = "innerchecked"
    /\ Respond(g, PageOutcomes["WaitForElementWithContext"])
    /\ UNCHANGED <<browser, page>>

\* Screenshot: the error, p.Element(options.Selector), or p.screenshotPage
Screenshot(g) ==
    /\ calls[g].op = "Screenshot" /\ calls[g].pc = "checked"
    /\ IF calls[g].closed
         THEN calls' = [calls EXCEPT ![g] = Return(@, PageClosedError, FALSE)]
         ELSE IF calls[g].input # ""
                THEN calls' = [calls EXCEPT ![g].pc = "inner"]
                ELSE \E outcome \in {"bytes", "failed to capture screenshot"} :
                        calls' = [calls EXCEPT ![g] = Return(@, outcome, TRUE)]
    /\ UNCHANGED <<browser, page>>

\* Screenshot of an element: p.Element's error wrapped, or p.screenshotElement
ScreenshotOfElement(g) ==
    /\ calls[g].op = "Screenshot" /\ calls[g].pc = "innerchecked"
    /\ IF calls[g].closed
         THEN calls' = [calls EXCEPT ![g] =
                          Return(@, "failed to find element for screenshot: page is closed", FALSE)]
         ELSE \E outcome \in {"bytes", "failed to find element for screenshot: element not found"} :
                calls' = [calls EXCEPT ![g] = Return(@, outcome, TRUE)]
    /\ UNCHANGED <<browser, page>>

NextPage ==
    \E g \in (1..MaxGoroutines) :
        /\ \/ CallPageClose(g)
           \/ CallPage(g)
           \/ PageCloseLock(g)
           \/ PageCloseCheck(g)
           \/ PageCloseFinish(g)
           \/ PageReadClosed(g)
           \/ Navigate(g)
           \/ NavigateWithContext(g)
           \/ Title(g)
           \/ URL(g)
           \/ Element(g)
           \/ Elements(g)
           \/ WaitForElement(g)
           \/ WaitForElementWithContext(g)
           \/ Screenshot(g)
           \/ ScreenshotOfElement(g)
           \/ StartJSCoverage(g)
           \/ StopJSCoverage(g)
        /\ UNCHANGED <<args, ret, <<filterOptions, raw, provided, pc, idx, entries, totalMetrics, filterStats>>>>

SpecPage == Init /\ [][NextPage]_vars

----------------------------------------------------------------------------
(* Properties of the classifier, under SpecClassify *)

\* p occurs in s when case is ignored
ContainsFold(s, p) ==
    \E k \in 0..(Len(s) - Len(p)) : \A j \in 1..Len(p) : ToLowerChar(s[k + j]) = ToLowerChar(p[j])

IncludePatternHit(url, source, options) ==
    \E k \in DOMAIN options.CustomIncludePatterns :
        \/ ContainsFold(url, options.CustomIncludePatterns[k])
        \/ ContainsFold(source, options.CustomIncludePatterns[k])

\* C1: whenever some customIncludePatterns entry occurs, ignoring case, in the
\* URL or in the source, isApplicationScript returns (true, "custom_include"),
\* whatever the URL, the source, the toggles and the thresholds are.
C1_CustomIncludeOverrides ==
    (ret.called /\ IncludePatternHit(args.url, args.source, args.options))
        => ret.value = [isApp |-> TRUE, reason |-> "custom_include"]

\* C1 witness: an included script whose URL has the inline-script prefix and
\* whose source is shorter than minScriptSize, with every toggle set.
C1_Witness ==
    /\ ret.called
    /\ IncludePatternHit(args.url, args.source, args.options)
    /\ HasPrefix(args.url, InlineScriptPrefix)
    /\ Len(TrimSpace(args.source)) < args.options.MinScriptSize
    /\ args.options.ExcludeEmptyURLs /\ args.options.ExcludeDevTools /\ args.options.ExcludeBrowserExt
    /\ ret.value.reason = "custom_include"
    /\ ret.value.isApp

\* The reason of the first of rules 1 to 11 whose condition holds, "none" if none does.
FirstRule(url, source, options) ==
    CASE IncludePatternHit(url, source, options) -> "custom_include"
      [] inlineScriptBlocked(url) -> "inline_script_blocked"
      [] emptyURL(url, options) -> "empty_url"
      [] browserExtension(url, options) -> "browser_extension"
      [] devToolsFramework(source, options) -> "devtools_framework"
      [] tooSmall(source, options) -> "too_small"
      [] isBrowserInternal(source) -> "browser_internal"
      [] options.ExcludeFrameworkTools /\ isFrameworkTool(url, source) -> "framework_tools"
      [] options.ExcludeCDNLibraries /\ isCDNLibrary(url) -> "cdn_library"
      [] options.ExcludeMinifiedCode /\ hasMinifiedURL(url) -> "minified_code"
      [] options.ExcludeMinifiedCode /\ isGeneratedCode(source) -> "generated_code"
      [] options.ExcludeMinifiedCode /\ looksMinified(source) -> "minified_heuristic"
      [] options.ExcludeTestFrameworks /\ isTestFramework(url, source) -> "test_framework"
      [] OTHER -> "none"

\* C2: the reason returned is that of the first rule, in the fixed order, whose
\* condition holds, and application_script only when no rule's condition holds.
\* Rules 1 to 11 and the custom_exclude rule are stated with their conditions;
\* where none of rules 1 to 11 holds the reason is one of the later rules', and
\* not application_script when a customExcludePatterns entry matches.
C2_ReasonOfFirstMatchingRule ==
    ret.called =>
        LET first == FirstRule(args.url, args.source, args.options)
        IN  /\ ret.value.isApp = (ret.value.reason \in {"custom_include", "application_script"})
            /\ IF first # "none"
               THEN ret.value.reason = first
               ELSE IF CustomExcludeMatches(args.url, args.source, args.options)
               THEN ret.value.reason \in {"high_density_inline", "inline_system_script", "custom_exclude"}
               ELSE ret.value.reason \in {"high_density_inline", "inline_system_script", "application_script"}

\* C4: with excludeCDNLibraries set, the script at https://cdn.jsdelivr.net/x.js
\* is excluded with reason cdn_library, also when its trimmed source is shorter
\* than minScriptSize (no customIncludePatterns entry matching).
C4_CdnExcludedEvenIfSmall ==
    LET
        CdnScriptURL == <<"h","t","t","p","s",":","/","/","c","d","n",".","j","s","d","e","l","i","v","r",".","n","e","t","/","x",".","j","s">>
    IN
    ( /\ ret.called
      /\ args.url = CdnScriptURL
      /\ args.options.ExcludeCDNLibraries
      /\ ~IncludePatternHit(args.url, args.source, args.options) )
        => ret.value = [isApp |-> FALSE, reason |-> "cdn_library"]

----------------------------------------------------------------------------
(* Properties of the coverage metrics, under SpecMetrics *)

\* C5: building the coverage bitmap never indexes outside [0, sourceLength) and
\* never raises, whatever the source length and the ranges are.
C5_BitmapNeverRaises == ret.called => ~ret.value.panic

\* the bytes of a source of length L inside some range with a positive count
MarkedBytes(L, ranges) ==
    LET
        Clamp0(n) == IF n < 0 THEN 0 ELSE n
    IN
    { i \in 0..(L - 1) :
        \E k \in DOMAIN ranges :
            /\ ranges[k].Count > 0
            /\ Clamp0(ranges[k].StartOffset) <= i
            /\ i < ranges[k].EndOffset }

\* C6: a byte is covered iff some range with executionCount > 0 has
\* max(0,start) <= i < min(L,end), and statements.covered is the number of such
\* bytes (the size of the union), for every source length and list of ranges.
C6_CoveredIsUnionOfRanges ==
    ret.called =>
        /\ ~ret.value.panic
        /\ ret.value.value.Statements.Covered = Cardinality(MarkedBytes(Len(args.source), args.ranges))
        /\ ret.value.value.Statements.Total = Len(args.source)

\* the lines of a source with the offset each starts at
RECURSIVE LineSpans(_, _, _)
LineSpans(s, from, k) ==
    IF k > Len(s) THEN << [start |-> from, end |-> Len(s)] >>
    ELSE IF s[k] = "\n" THEN << [start |-> from, end |-> k - 1] >> \o LineSpans(s, k, k + 1)
    ELSE LineSpans(s, from, k + 1)

\* C7: lines.total is the number of executable lines, and an executable line is
\* counted covered iff some byte of its span, from its start offset through the
\* end of its content, is marked covered.
C7_LineCoveredIffAnyByteOfSpan ==
    LET
        \* a span is executable when it holds a character that is not white space and
        \* its first such characters are not "//"
        SpanExecutable(s, span) ==
            LET text == {k \in (span.start + 1)..span.end : ~IsSpace(s[k])}
            IN  /\ text # {}
                /\ LET f == MinOf(text) IN ~(f < span.end /\ s[f] = "/" /\ s[f + 1] = "/")
    IN
    (ret.called /\ ~ret.value.panic) =>
        LET s      == args.source
            spans  == LineSpans(s, 0, 1)
            marked == MarkedBytes(Len(s), args.ranges)
            exec   == {n \in DOMAIN spans : SpanExecutable(s, spans[n])}
        IN  /\ ret.value.value.Lines.Total = Cardinality(exec)
            /\ ret.value.value.Lines.Covered =
                   Cardinality({n \in exec : \E i \in marked : spans[n].start <= i /\ i < spans[n].end})

----------------------------------------------------------------------------
(* Properties of the report, under Spec *)

\* the script the loop is about to process has URL "" and source "console.clear()"
AtConsoleClearScript ==
    /\ pc = "loop"
    /\ idx <= Len(raw)
    /\ raw[idx].URL = << >>
    /\ provided[idx] = [source |-> <<"c","o","n","s","o","l","e",".","c","l","e","a","r","(",")">>, err |-> FALSE]
    /\ filterOptions = NewCoverageReporter

\* C3 as claimed: under the reporter's default options the script with URL ""
\* and source "console.clear()" is excluded with reason browser_internal.
C3_ConsoleClearIsBrowserInternal ==
    [][AtConsoleClearScript =>
         /\ Count(filterStats'.FilterReasons, "browser_internal")
                = Count(filterStats.FilterReasons, "browser_internal") + 1
         /\ entries' = entries]_vars

\* C3 amended: under the reporter's default options the script with URL "" and
\* source "console.clear()" is excluded with reason empty_url, and no other
\* reason is counted for it.
C3_ConsoleClearIsEmptyURL ==
    [][AtConsoleClearScript =>
         /\ filterStats'.FilterReasons = Incr(filterStats.FilterReasons, "empty_url")
         /\ entries' = entries
         /\ idx' = idx + 1]_vars

\* C3 witness: that script has just been processed and counted as empty_url.
C3_Witness ==
    /\ pc = "loop"
    /\ idx = 2
    /\ raw[1].URL = << >>
    /\ provided[1] = [source |-> <<"c","o","n","s","o","l","e",".","c","l","e","a","r","(",")">>, err |-> FALSE]
    /\ filterOptions = NewCoverageReporter
    /\ filterStats.FilterReasons = ("empty_url" :> 1)
    /\ entries = << >>

StatOK(st) ==
    LET PctOK ==
            IF st.Total = 0
            THEN st.Pct = [num |-> 0, den |-> 1]
            ELSE /\ st.Pct.den > 0
                 /\ st.Pct.num * st.Total = st.Covered * 100 * st.Pct.den
                 /\ 0 <= st.Pct.num
                 /\ st.Pct.num <= 100 * st.Pct.den
    IN  0 <= st.Covered /\ st.Covered <= st.Total /\ PctOK

\* C8: every CoverageStat of a file entry, and of the report total once the
\* report is assembled, has 0 <= covered <= total and 0 <= pct <= 100, with
\* pct = covered/total*100 when total > 0 and pct = 0 when total = 0.
C8_StatsWithinBounds ==
    LET
        MetricsOK(m) == StatOK(m.Statements) /\ StatOK(m.Functions) /\ StatOK(m.Lines)
    IN
    /\ \A k \in DOMAIN entries : MetricsOK(entries[k].Metrics)
    /\ pc = "done" => MetricsOK(totalMetrics)

\* C8 witness: an assembled report with a file that has no function groups
\* (pct 0 of total 0), a partly covered file, and a total strictly between
\* 0 and 100 percent.
C8_Witness ==
    /\ pc = "done"
    /\ \E k \in DOMAIN entries : entries[k].Metrics.Functions.Total = 0
    /\ \E k \in DOMAIN entries :
          /\ 0 < entries[k].Metrics.Statements.Covered
          /\ entries[k].Metrics.Statements.Covered < entries[k].Metrics.Statements.Total
    /\ 0 < totalMetrics.Statements.Pct.num
    /\ totalMetrics.Statements.Pct.num < 100 * totalMetrics.Statements.Pct.den

\* the source provider failed for script k: an error, or an empty string
Failed(k) == provided[k].err \/ Len(provided[k].source) = 0

Processed == IF pc = "done" THEN Len(raw) ELSE idx - 1

Classified(k) == isApplicationScript(raw[k].URL, provided[k].source, filterOptions)

EntryOf(k) ==
    FileEntry(raw[k], provided[k].source,
              calculateCoverageMetrics(provided[k].source, collectRanges(raw[k].Functions, 1),
                                       raw[k].Functions).value)

\* C9: a script whose source is unavailable is counted once under
\* source_unavailable and nowhere else and gets no file entry, and the scripts
\* around it are counted and measured each by itself: the reason counts and the
\* file entries are those of the scripts whose source was provided.
C9_SourceFailureIsLocal ==
    pc \in {"loop", "done"} =>
        LET done      == 1..Processed
            survivors == {k \in done : ~Failed(k)}
            class     == [k \in survivors |-> Classified(k)]
            included  == {k \in survivors : class[k].isApp}
            reasons   == filterStats.FilterReasons
        IN  /\ Count(reasons, "source_unavailable") = Cardinality({k \in done : Failed(k)})
            /\ \A rho \in (DOMAIN reasons \cup {class[k].reason : k \in survivors}) \ {"source_unavailable"} :
                   Count(reasons, rho) = Cardinality({k \in survivors : class[k].reason = rho})
            /\ Len(entries) = Cardinality(included)
            /\ {entries[n] : n \in DOMAIN entries} = {EntryOf(k) : k \in included}

\* C9 witness: a report over two scripts, the first failing with an error, the
\* second included.
C9_Witness ==
    /\ pc = "done"
    /\ Len(raw) = 2
    /\ provided[1].err
    /\ ~Failed(2)
    /\ Len(entries) = 1
    /\ entries[1].ScriptID = raw[2].ScriptID
    /\ Count(filterStats.FilterReasons, "source_unavailable") = 1

\* C10: once the report is assembled, totalScripts is the number of scripts,
\* applicationScripts + filteredOut = totalScripts, the reason counts sum to
\* totalScripts, and applicationScripts is the number of file entries, which is
\* reasonCounts[application_script] + reasonCounts[custom_include].
C10_StatsAddUp ==
    pc = "done" =>
        /\ filterStats.TotalScripts = Len(raw)
        /\ filterStats.ApplicationScripts + filterStats.FilteredOut = filterStats.TotalScripts
        /\ SumCounts(filterStats.FilterReasons, DOMAIN filterStats.FilterReasons) = filterStats.TotalScripts
        /\ filterStats.ApplicationScripts = Len(entries)
        /\ Len(entries) = Count(filterStats.FilterReasons, "application_script")
                          + Count(filterStats.FilterReasons, "custom_include")

\* C10 witness: an assembled report with one script included and one filtered out.
C10_Witness ==
    /\ pc = "done"
    /\ filterStats.TotalScripts = 2
    /\ filterStats.ApplicationScripts = 1
    /\ filterStats.FilteredOut = 1
    /\ Cardinality(DOMAIN filterStats.FilterReasons) = 2

----------------------------------------------------------------------------
(* Properties of the report, continued *)

RECURSIVE SumField(_, _, _, _)
SumField(es, kind, field, k) ==
    IF k > Len(es) THEN 0 ELSE es[k].Metrics[kind][field] + SumField(es, kind, field, k + 1)

\* C11: for statements, functions and lines the total's covered and total are
\* the sums over the file entries, in whatever order the scripts were processed
\* and the entries are listed, and once the report is assembled the total's pct
\* is covered/total*100 of those sums (0 when the sum of totals is 0).
C11_TotalsAreFoldOfFiles ==
    pc \in {"loop", "done"} =>
        \A kind \in ({"Statements", "Functions", "Lines"}) :
            LET tot == SumField(entries, kind, "Total", 1)
                cov == SumField(entries, kind, "Covered", 1)
                t   == totalMetrics[kind]
            IN  /\ t.Total = tot
                /\ t.Covered = cov
                /\ pc = "done" =>
                       IF tot = 0 THEN t.Pct = [num |-> 0, den |-> 1]
                       ELSE t.Pct.den > 0 /\ t.Pct.num * tot = cov * 100 * t.Pct.den

\* C11 witness: an assembled report of two files listed in the reverse of
\* their processing order, whose total statement percentage differs from the
\* average of the two files' percentages.
C11_Witness ==
    /\ pc = "done"
    /\ Len(entries) = 2
    /\ Len(raw) = 2
    /\ entries[1].ScriptID = raw[2].ScriptID
    /\ LET p1 == entries[1].Metrics.Statements.Pct
           p2 == entries[2].Metrics.Statements.Pct
           t  == totalMetrics.Statements.Pct
       IN  /\ p1 # p2
           /\ (p1.num * p2.den + p2.num * p1.den) * t.den # 2 * t.num * p1.den * p2.den

\* C12: every included script has a file entry named 'Script_' + scriptId when
\* its URL is empty and URL + '#' + scriptId otherwise, and two file entries
\* with different scriptIds have different display names.
C12_DisplayNamesDistinct ==
    LET
        \* the display name the report gives a script
        DisplayName(url, scriptId) ==
            IF Len(url) = 0 THEN <<"S","c","r","i","p","t","_">> \o scriptId ELSE url \o <<"#">> \o scriptId
    IN
    pc \in {"loop", "done"} =>
        /\ \A k \in 1..Processed :
               (~Failed(k) /\ Classified(k).isApp) =>
                   \E n \in DOMAIN entries :
                       /\ entries[n].ScriptID = raw[k].ScriptID
                       /\ entries[n].URL = DisplayName(raw[k].URL, raw[k].ScriptID)
        /\ \A n \in DOMAIN entries :
               \E k \in 1..Processed :
                   /\ entries[n].ScriptID = raw[k].ScriptID
                   /\ entries[n].URL = DisplayName(raw[k].URL, raw[k].ScriptID)
        /\ \A a, b \in DOMAIN entries :
               entries[a].ScriptID # entries[b].ScriptID => entries[a].URL # entries[b].URL

\* C12 witness: two scripts sharing the URL app.js, with ids 1 and 2, listed as
\* app.js#1 and app.js#2.
C12_Witness ==
    /\ pc = "done"
    /\ Len(raw) = 2
    /\ raw[1].URL = <<"a","p","p",".","j","s">> /\ raw[2].URL = <<"a","p","p",".","j","s">>
    /\ raw[1].ScriptID = <<"1">> /\ raw[2].ScriptID = <<"2">>
    /\ Len(entries) = 2
    /\ entries[1].URL = <<"a","p","p",".","j","s","#","1">>
    /\ entries[2].URL = <<"a","p","p",".","j","s","#","2">>

----------------------------------------------------------------------------
(* Properties of the file list, under SpecPages *)

----------------------------------------------------------------------------
(* Properties of GenerateReport, under SpecGenerate *)

\* C14: the percentage GenerateReport writes to the summary index is the
\* statement percentage of the report total, that is covered bytes over total
\* bytes summed over the included file entries.
C14_IndexPctIsReportPct ==
    pc = "indexed" => ret.value = totalMetrics.Statements.Pct

----------------------------------------------------------------------------
(* Properties of the classifier, continued *)

StartsWithInlineScript(url) ==
    /\ Len(url) >= Len(<<"i","n","l","i","n","e","-","s","c","r","i","p","t","-">>)
    /\ \A k \in 1..Len(<<"i","n","l","i","n","e","-","s","c","r","i","p","t","-">>) : url[k] = <<"i","n","l","i","n","e","-","s","c","r","i","p","t","-">>[k]

\* C15: a script whose URL starts with 'inline-script-' and that matches no
\* customIncludePatterns entry is excluded with reason inline_script_blocked,
\* whatever the toggles and thresholds are.
C15_InlineScriptAlwaysBlocked ==
    ( /\ ret.called
      /\ StartsWithInlineScript(args.url)
      /\ ~IncludePatternHit(args.url, args.source, args.options) )
        => ret.value = [isApp |-> FALSE, reason |-> "inline_script_blocked"]

\* C15 witness: an inline script blocked while every toggle is false.
C15_Witness ==
    /\ ret.called
    /\ StartsWithInlineScript(args.url)
    /\ \A t \in ({"ExcludeEmptyURLs", "ExcludeDevTools", "ExcludeBrowserExt", "ExcludeFrameworkTools", "ExcludeCDNLibraries", "ExcludeMinifiedCode", "ExcludeTestFrameworks", "ExcludeHighDensityInlineScripts", "ExcludeInlineSystemScripts"}) : ~args.options[t]
    /\ ret.value = [isApp |-> FALSE, reason |-> "inline_script_blocked"]

\* none of rules 1 to 5 applies to the script
PassesRules1To5(url, source, options) ==
    /\ ~IncludePatternHit(url, source, options)
    /\ ~StartsWithInlineScript(url)
    /\ ~(options.ExcludeEmptyURLs /\ Len(url) = 0)
    /\ ~(options.ExcludeBrowserExt /\
           \E scheme \in {<<"c","h","r","o","m","e","-","e","x","t","e","n","s","i","o","n",":","/","/">>, <<"m","o","z","-","e","x","t","e","n","s","i","o","n",":","/","/">>, <<"s","a","f","a","r","i","-","e","x","t","e","n","s","i","o","n",":","/","/">>} :
               Contains(url, scheme))
    /\ ~(options.ExcludeDevTools /\
           \E k \in DOMAIN devToolsPatterns : ContainsFold(source, devToolsPatterns[k]))

\* C16: a script that passes rules 1 to 5 is excluded as too_small exactly when
\* the length of its whitespace-trimmed source is strictly less than
\* minScriptSize; a trimmed length equal to minScriptSize is not too small.
C16_TooSmallIsStrict ==
    (ret.called /\ PassesRules1To5(args.url, args.source, args.options)) =>
        /\ ret.value.reason = "too_small" <=> Len(TrimSpace(args.source)) < args.options.MinScriptSize
        /\ ret.value.reason = "too_small" => ~ret.value.isApp

\* C16 witness: a source padded with whitespace whose trimmed length equals
\* minScriptSize and that is not too small.
C16_Witness ==
    /\ ret.called
    /\ PassesRules1To5(args.url, args.source, args.options)
    /\ Len(TrimSpace(args.source)) = args.options.MinScriptSize
    /\ Len(args.source) > args.options.MinScriptSize
    /\ ret.value.reason # "too_small"

----------------------------------------------------------------------------
(* Properties of the coverage metrics, continued *)

\* C17: in the metrics calculateCoverageMetrics returns, functions.total is the
\* number of function groups and functions.covered the number of groups with
\* at least one range of executionCount > 0, whatever the offsets of that range.
C17_FunctionsCountedByGroup ==
    (ret.called /\ ~ret.value.panic) =>
        /\ ret.value.value.Functions.Total = Len(args.functions)
        /\ ret.value.value.Functions.Covered =
               Cardinality({k \in DOMAIN args.functions :
                              \E j \in DOMAIN args.functions[k].Ranges :
                                  args.functions[k].Ranges[j].Count > 0})

\* C17 witness: two groups, one with an inverted range beyond the source and
\* one with an empty range, both executed; both are covered although no byte is.
C17_Witness ==
    /\ ret.called
    /\ ~ret.value.panic
    /\ Len(args.functions) = 2
    /\ args.ranges = args.functions[1].Ranges \o args.functions[2].Ranges
    /\ \E j \in DOMAIN args.functions[1].Ranges :
           LET r == args.functions[1].Ranges[j]
           IN  r.Count > 0 /\ r.EndOffset < r.StartOffset /\ r.StartOffset > Len(args.source)
    /\ ret.value.value.Functions.Covered = 2
    /\ ret.value.value.Statements.Total > 0
    /\ ret.value.value.Statements.Covered = 0

----------------------------------------------------------------------------
(* Properties of the report: the empty script list *)

\* C18: a report over an empty script list is assembled without a failure, with
\* totalScripts = applicationScripts = filteredOut = 0, no reason counts, no
\* file entries, 0 for every total and percentage, and no division by zero in
\* the filtering statistics.
C18_EmptyReportIsValid ==
    (pc # "idle" /\ Len(raw) = 0) =>
        /\ pc \in {"loop", "done"}
        /\ entries = << >>
        /\ filterStats.TotalScripts = 0
        /\ filterStats.ApplicationScripts = 0
        /\ filterStats.FilteredOut = 0
        /\ DOMAIN filterStats.FilterReasons = {}
        /\ \A kind \in ({"Statements", "Functions", "Lines"}) :
               /\ totalMetrics[kind].Total = 0
               /\ totalMetrics[kind].Covered = 0
               /\ totalMetrics[kind].Pct = [num |-> 0, den |-> 1]
        /\ generateFilteringStats(filterStats) = << >>

\* C18 witness: the assembled report of an empty script list.
C18_Witness ==
    /\ pc = "done"
    /\ raw = << >>
    /\ entries = << >>
    /\ filterStats.TotalScripts = 0
    /\ totalMetrics.Statements.Pct = [num |-> 0, den |-> 1]

----------------------------------------------------------------------------
(* Properties of the profiles, under SpecProfile *)

\* C19: for every profile name other than development, production and
\* application, getFilterOptions returns the options it returns for default.
C19_UnknownProfileIsDefault ==
    (pc = "configured" /\ args.profile \notin ({"development", "production", "application"})) =>
        filterOptions = getFilterOptions("default")

\* C19 witness: a reporter given a name the switch does not know (not default
\* itself) holds options that differ from those it was constructed with.
C19_Witness ==
    /\ pc = "configured"
    /\ args.profile \notin ({"development", "production", "application"}) \cup {"default"}
    /\ filterOptions.MinScriptSize = 30
    /\ filterOptions.MaxStatementsPerLine = 50
    /\ filterOptions # NewCoverageReporter
    /\ ret.called

----------------------------------------------------------------------------
(* Purity of the classifier, under SpecClassify *)

----------------------------------------------------------------------------
(* Properties of Browser, under SpecBrowser *)

\* a call that began after some Close had returned, and has returned itself
LaterCall(g) == calls[g].after /\ calls[g].pc = "done"

\* C21: once Browser.Close has returned the browser stays closed: every call
\* begun later gets false from IsConnected and the 'browser is closed' error
\* from NewPage and Pages, and no step ever resets the closed flag.
C21_LaterCallsSeeClosed ==
    /\ CloseHasReturned("Close") => browser.closed
    /\ \A g \in (1..MaxGoroutines) :
        LaterCall(g) =>
            /\ calls[g].op = "IsConnected" => calls[g].ret = "false"
            /\ calls[g].op \in {"NewPage", "Pages"} => calls[g].ret = BrowserClosedError

\* C21, with the flag: the closed flag is never reset, and the calls begun
\* after a Close has returned see the browser closed.
C21_StaysClosed ==
    /\ []C21_LaterCallsSeeClosed
    /\ [][browser.closed => browser'.closed]_vars

C21_Witness ==
    /\ \E g \in (1..MaxGoroutines) :
        LaterCall(g) /\ calls[g].op = "NewPage" /\ calls[g].ret = BrowserClosedError
    /\ \E g \in (1..MaxGoroutines) :
        LaterCall(g) /\ calls[g].op = "IsConnected" /\ calls[g].ret = "false"

\* C29: Browser.Close is idempotent and safe under concurrent calls: the
\* underlying browser is closed and the context cancelled at most once, and a
\* Close that begins once the closed flag is set returns nil without touching
\* the browser.
C29_CloseOnce ==
    /\ browser.closeCalls <= 1
    /\ browser.cancelCalls <= 1
    /\ \A g \in (1..MaxGoroutines) :
        (calls[g].op = "Close" /\ calls[g].flagged /\ calls[g].pc = "done") =>
            calls[g].ret = "nil" /\ ~calls[g].touched

\* two goroutines in Close at once: the second began while the first was closing
C29_Witness ==
    \E g, h \in (1..MaxGoroutines) :
        /\ g # h
        /\ calls[g].op = "Close" /\ calls[g].pc = "done" /\ calls[g].touched
        /\ calls[h].op = "Close" /\ calls[h].pc = "done"
        /\ calls[h].flagged /\ ~calls[h].after
        /\ browser.closeCalls = 1

----------------------------------------------------------------------------
(* Properties of Page, under SpecPage *)

\* C30: after Page.Close has returned, every later call of Navigate,
\* NavigateWithContext, Title, Element, Elements, WaitForElement,
\* WaitForElementWithContext, Screenshot, StartJSCoverage and StopJSCoverage
\* returns the 'page is closed' error without contacting the browser, and URL
\* returns the empty string.
C30_ClosedPageRefuses ==
    \A g \in (1..MaxGoroutines) :
        LaterCall(g) =>
            /\ calls[g].op \in ({"Navigate", "NavigateWithContext", "Title", "Element", "Elements", "WaitForElement", "WaitForElementWithContext", "Screenshot", "StartJSCoverage", "StopJSCoverage"}) =>
                calls[g].ret = PageClosedError /\ ~calls[g].touched
            /\ calls[g].op = "URL" => calls[g].ret = "" /\ ~calls[g].touched

C30_Witness ==
    /\ \E g \in (1..MaxGoroutines) :
        LaterCall(g) /\ calls[g].op = "StopJSCoverage" /\ calls[g].ret = PageClosedError
    /\ \E g \in (1..MaxGoroutines) :
        LaterCall(g) /\ calls[g].op = "URL" /\ calls[g].ret = ""

----------------------------------------------------------------------------
(* Properties of StopJSCoverage and of reports over its entries, under SpecCoverage *)

\* the scripts of the result whose source the browser delivers, in order
RECURSIVE Delivered(_, _)
Delivered(sources, k) ==
    IF k > Len(sources) THEN << >>
    ELSE (IF sources[k].err \/ Len(sources[k].source) = 0 THEN << >> ELSE <<k>>)
         \o Delivered(sources, k + 1)

\* C22: every CoverageEntry returned by StopJSCoverage has a non-empty URL and
\* a non-empty Source: a script with an empty URL is returned under
\* 'inline-script-' + scriptId, and a script whose source cannot be fetched or
\* is empty is dropped from the result.
C22_EntriesHaveURLAndSource ==
    args # ([none |-> TRUE]) =>
        LET kept == Delivered(args.sources, 1)
        IN  /\ Len(args.entries) = Len(kept)
            /\ \A n \in DOMAIN args.entries :
                LET e == args.entries[n]
                    s == args.result[kept[n]]
                IN  /\ Len(e.URL) > 0 /\ Len(e.Source) > 0
                    /\ e.Source = args.sources[kept[n]].source
                    /\ e.URL = IF Len(s.URL) = 0
                               THEN <<"i","n","l","i","n","e","-","s","c","r","i","p","t","-">> \o s.ScriptID
                               ELSE s.URL

C22_Witness ==
    /\ args # ([none |-> TRUE])
    /\ Len(args.result) = 2
    /\ args.sources[1].err
    /\ args.result[2].URL = << >>
    /\ Len(args.entries) = 1
    /\ args.entries[1].URL = <<"i","n","l","i","n","e","-","s","c","r","i","p","t","-","2">>

\* C28: when the entries StopJSCoverage returned are passed to GenerateReport
\* with no custom include pattern, every script whose browser URL was empty is
\* excluded with reason inline_script_blocked, the reasons empty_url and
\* source_unavailable never occur, and no file entry gets a 'Script_' name.
C28_EmptyURLBecomesInlineBlocked ==
    (pc # "idle" /\ Len(filterOptions.CustomIncludePatterns) = 0) =>
        LET kept == Delivered(args.sources, 1)
        IN  /\ \A k \in 1..Processed :
                Len(args.result[kept[k]].URL) = 0 =>
                    /\ ~Failed(k)
                    /\ Classified(k).reason = "inline_script_blocked"
                    /\ \A n \in DOMAIN entries : entries[n].ScriptID # raw[k].ScriptID
            /\ Count(filterStats.FilterReasons, "empty_url") = 0
            /\ Count(filterStats.FilterReasons, "source_unavailable") = 0
            /\ \A n \in DOMAIN entries :
                ~HasPrefix(entries[n].URL, <<"S","c","r","i","p","t","_">>)

C28_Witness ==
    /\ pc = "done"
    /\ Len(args.result) = 2
    /\ args.result[1].URL = << >> /\ args.result[2].URL = <<"a","p","p",".","j","s">>
    /\ Count(filterStats.FilterReasons, "inline_script_blocked") = 1
    /\ Len(entries) = 1

----------------------------------------------------------------------------
(* Properties of the profiles, under SpecProfile *)

\* C23: each named profile differs from the base option set only in
\* minScriptSize, maxStatementsPerLine and the toggles excludeFrameworkTools,
\* excludeMinifiedCode, excludeTestFrameworks, excludeHighDensityInlineScripts;
\* excludeEmptyURLs, excludeDevTools, excludeBrowserExtensions,
\* excludeCDNLibraries and excludeInlineSystemScripts are true and both
\* pattern lists are empty in every profile.
C23_ProfilesKeepTheFrame ==
    LET
        \* the toggles that are set in every profile
        AlwaysSet ==
            {"ExcludeEmptyURLs", "ExcludeDevTools", "ExcludeBrowserExt", "ExcludeCDNLibraries",
             "ExcludeInlineSystemScripts"}
    IN
    LET
        \* the options a profile may set to its own value
        ProfileOwned ==
            {"MinScriptSize", "MaxStatementsPerLine", "ExcludeFrameworkTools", "ExcludeMinifiedCode",
             "ExcludeTestFrameworks", "ExcludeHighDensityInlineScripts"}
    IN
    (pc = "configured" /\ args.profile \in ({"development", "production", "application"}) \cup {"default"}) =>
        /\ DOMAIN filterOptions = DOMAIN getFilterOptions("default")
        /\ \A f \in DOMAIN filterOptions \ ProfileOwned :
               filterOptions[f] = getFilterOptions("default")[f]
        /\ \A f \in AlwaysSet : filterOptions[f] = TRUE
        /\ filterOptions.CustomExcludePatterns = << >>
        /\ filterOptions.CustomIncludePatterns = << >>

C23_Witness ==
    /\ pc = "configured"
    /\ args.profile = "development"
    /\ ~filterOptions.ExcludeMinifiedCode
    /\ filterOptions.MinScriptSize = 10
    /\ filterOptions.ExcludeCDNLibraries

----------------------------------------------------------------------------
(* Properties of isRepetitiveContent, under SpecRepetitive *)

\* C25: isRepetitiveContent reports a source as repetitive iff more than 60% of
\* its adjacent line pairs are identical (identical pairs divided by the number
\* of adjacent pairs), or one of the narrow symbols occurs more than 10 times.
C25_RepetitiveIffPairsOrSymbols ==
    LET
        \* repetitive as the rule is worded: the share of the adjacent line pairs that
        \* are identical (compared as the code compares two lines), or a narrow symbol
        RepetitiveAsWorded(source) ==
            LET lines     == Split(source)
                pairs     == Len(lines) - 1
                identical == Cardinality({i \in 1..pairs : identicalToNext(lines, i)})
            IN  \/ pairs > 0 /\ identical * 10 > 6 * pairs
                \/ \E k \in 1..Len(narrowSymbols) : StrCount(source, narrowSymbols[k]) > 10
    IN
    ret.called => (ret.value = RepetitiveAsWorded(args.source))

----------------------------------------------------------------------------
(* Properties of the inline rules of the older classifier, under SpecAllRules *)

\* the source holds one of the system signatures, case ignored
HasSystemSignature(source) ==
    \E k \in 1..Len(systemPatterns) : ContainsFold(source, systemPatterns[k])

\* C24: the inline_system_script rule treats a script as inline under the same
\* condition as the high_density_inline rule (empty URL, inline-script prefix,
\* or a URL containing 'inline'): with excludeInlineSystemScripts set, a script
\* whose URL merely contains 'inline' and whose source contains a
\* system-signature substring is excluded as inline_system_script when no
\* earlier rule fires.
C24_InlineSystemUsesSameInlineTest ==
    LET
        \* none of the rules ahead of inline_system_script fires
        NoEarlierRule(url, source, options) ==
            /\ FirstRule(url, source, options) = "none"
            /\ ~highDensityInline(url, source, options)
    IN
    LET
        \* inline as the high-density rule is worded: empty, prefixed or holding "inline"
        InlineAsWorded(url) ==
            \/ Len(url) = 0
            \/ HasPrefix(url, <<"i","n","l","i","n","e","-","s","c","r","i","p","t","-">>)
            \/ ContainsFold(url, <<"i","n","l","i","n","e">>)
    IN
    ( /\ ret.called
      /\ filterOptions.ExcludeInlineSystemScripts
      /\ InlineAsWorded(args.url)
      /\ HasSystemSignature(args.source)
      /\ NoEarlierRule(args.url, args.source, filterOptions) )
        => ret.value = [isApp |-> FALSE, reason |-> "inline_system_script"]

\* C27: under each of the four named profiles with empty custom pattern lists
\* no script is ever classified inline_system_script: every script that rule
\* treats as inline (empty URL or 'inline-script-' prefix) is already excluded
\* by the inline_script_blocked rule or by the empty_url rule.
C27_InlineSystemNeverUnderProfiles ==
    ret.called =>
        /\ ret.value.reason # "inline_system_script"
        /\ (Len(args.url) = 0 \/ HasPrefix(args.url, <<"i","n","l","i","n","e","-","s","c","r","i","p","t","-">>))
             => ret.value.reason \in {"inline_script_blocked", "empty_url"}

C27_Witness ==
    /\ ret.called
    /\ args.profile = "development"
    /\ Len(args.url) = 0
    /\ HasSystemSignature(args.source)
    /\ Len(TrimSpace(args.source)) >= filterOptions.MinScriptSize
    /\ ret.value.reason = "empty_url"

----------------------------------------------------------------------------
(* Properties of the rendered source lines, under SpecRender *)

\* C26: for every file entry the per-line flags derived from the entry's
\* ranges agree with its line metric: the lines flagged covered number
\* metrics.lines.covered, the lines flagged covered or uncovered number
\* metrics.lines.total.
C26_LineFlagsAgreeWithMetric ==
    LET
        Flagged(classes, wanted) == Cardinality({k \in DOMAIN classes : classes[k] \in wanted})
    IN
    pc = "rendered" =>
        \A n \in DOMAIN entries :
            /\ ~ret.value[n].panic
            /\ Flagged(ret.value[n].value, {"line-covered"}) = entries[n].Metrics.Lines.Covered
            /\ Flagged(ret.value[n].value, {"line-covered", "line-uncovered"})
                 = entries[n].Metrics.Lines.Total

====
